---- MODULE Spec2Model ----
(***************************************************************************)
(* Feature-engineering and clustering-decision engine of the playlist      *)
(* optimizer: AudioFeaturesService (imputation, data quality) and          *)
(* ClusteringService (preprocessing, dispatcher, labels, projection).      *)
(*                                                                         *)
(* Numbers.  Ratios in [0,1] are integers in 0..Unit (hundredths), tempo   *)
(* is in BPM, loudness in dB.  Standardized features are in hundredths     *)
(* (ZUnit).  Python's None is the integer None, outside every domain.      *)
(***************************************************************************)
EXTENDS Integers, Sequences, FiniteSets, TLC

VARIABLES tracks, imputer_n_neighbors, pc, call, ret

vars == <<tracks, imputer_n_neighbors, pc, call, ret>>

\* ------------------------------------------------------------------ bounds
\* Largest number of tracks in an input playlist.
MaxTracks == 6
\* Largest number of tracks in it that carry no descriptor at all.
MaxBare == 3
\* Largest number of tracks in it that carry only some descriptors.
MaxPartial == 1
\* The size of each dense group of the playlist with an outlier.
DenseGroup == 4

\* ------------------------------------------------------------- number scale
Unit == 100
None == -999

Min2(a, b) == IF a <= b THEN a ELSE b
Max2(a, b) == IF a >= b THEN a ELSE b
Abs(a) == IF a < 0 THEN -a ELSE a


RECURSIVE SumOver(_, _)
\* sum of g[x] for x in the finite set S
SumOver(S, g) ==
  IF S = {} THEN 0
  ELSE LET x == CHOOSE y \in S : TRUE IN g[x] + SumOver(S \ {x}, g)

Range(s) == {s[i] : i \in 1..Len(s)}

\* A list / a dict with every element computed (a Python list or dict holds
\* values, not thunks).
List(f) == f \o <<>>
Dict(f) == f @@ <<>>

RECURSIVE SumFrom(_, _)
SumFrom(s, i) == IF i > Len(s) THEN 0 ELSE s[i] + SumFrom(s, i + 1)
\* sum(s) of a list
SumSeq(s) == SumFrom(List(s), 1)

MinOf(S) == CHOOSE x \in S : \A y \in S : x <= y
MaxOf(S) == CHOOSE x \in S : \A y \in S : x >= y

\* ------------------------------------------------------------- descriptors
\* AudioFeaturesService.AUDIO_FEATURES: the descriptors imputation handles.
AFS_AUDIO_FEATURES ==
  <<"danceability", "energy", "speechiness", "acousticness",
    "instrumentalness", "liveness", "valence", "tempo">>

\* ClusteringService.AUDIO_FEATURES: the descriptors the engine consumes.
AUDIO_FEATURES ==
  <<"danceability", "energy", "speechiness", "acousticness",
    "instrumentalness", "liveness", "valence", "tempo", "loudness">>

\* AudioFeaturesService.FEATURE_DEFAULTS (ratios in hundredths, tempo in BPM).
FEATURE_DEFAULTS ==
  [danceability |-> 50, energy |-> 50, speechiness |-> 10,
   acousticness |-> 30, instrumentalness |-> 20, liveness |-> 15,
   valence |-> 50, tempo |-> 120]

\* Track: id, the imputed flag and the nullable descriptor columns.
TrackOf(id, flag, feats) ==
  [id |-> id, features_imputed |-> flag, f |-> feats]

\* The nullable descriptor columns of Track.
TrackColumns ==
  {"danceability", "energy", "speechiness", "acousticness", "instrumentalness",
   "liveness", "valence", "tempo", "loudness", "key", "mode"}

\* getattr(track, feature) / setattr(track, feature, value)
getattr(track, feature) == track.f[feature]
setattr(track, feature, value) ==
  [track EXCEPT !.f = [@ EXCEPT ![feature] = value]]

\* ------------------------------------------------------ input playlists
HiProfile ==
  [danceability |-> 80, energy |-> 80, speechiness |-> 10,
   acousticness |-> 10, instrumentalness |-> 0, liveness |-> 10,
   valence |-> 80, tempo |-> 150, loudness |-> -5, key |-> 5, mode |-> 1]

LoProfile ==
  [danceability |-> 30, energy |-> 20, speechiness |-> 4,
   acousticness |-> 80, instrumentalness |-> 10, liveness |-> 20,
   valence |-> 20, tempo |-> 80, loudness |-> -25, key |-> 9, mode |-> 0]

Without(profile, missing) ==
  [x \in DOMAIN profile |-> IF x \in missing THEN None ELSE profile[x]]

\* A track for which the provider returned no audio features.
BareProfile == Without(HiProfile, DOMAIN HiProfile)

\* The descriptor vectors of tracks that reach the engine with some gaps.
PartialKinds ==
  { Without(HiProfile, {"danceability", "energy"}),
    Without(LoProfile, {"tempo"}),
    Without(HiProfile, {"loudness"}) }

RECURSIVE SeqsUpTo(_, _)
SeqsUpTo(S, n) ==
  IF n = 0 THEN {<<>>}
  ELSE LET shorter == SeqsUpTo(S, n - 1)
       IN shorter \cup {Append(s, x) : s \in {t \in shorter : Len(t) = n - 1}, x \in S}

Repeat(x, n) == [i \in 1..n |-> x]

\* The i-th fully described track of a playlist: two Hi tracks in three.
CompleteProfile(i) == IF i % 3 = 2 THEN LoProfile ELSE HiProfile

\* The orders in which a query hands the rows of a playlist to the engine.
IdOrders == {"by_id", "unordered"}

\* The primary key of the i-th track of a list: distinct keys, ascending
\* when the rows come ordered by id and scattered otherwise.
TrackId(order, i) == IF order = "by_id" THEN i ELSE (i * 7) % 11

\* A playlist: nComplete fully described tracks, nBare bare ones, then the
\* partially described ones.
Playlist(nComplete, nBare, partial, order) ==
  LET feats == [i \in 1..nComplete |-> CompleteProfile(i)]
               \o Repeat(BareProfile, nBare) \o partial
  IN List([i \in 1..Len(feats) |-> TrackOf(TrackId(order, i), FALSE, feats[i])])

InputPlaylists ==
  { Playlist(nComplete, nBare, partial, order) :
      nComplete \in 0..MaxTracks, nBare \in 0..MaxBare,
      partial \in SeqsUpTo(PartialKinds, MaxPartial), order \in IdOrders }

\* A spoken-word live recording, far from both kinds of song.
OutlierProfile ==
  [danceability |-> 55, energy |-> 50, speechiness |-> 95,
   acousticness |-> 45, instrumentalness |-> 100, liveness |-> 100,
   valence |-> 50, tempo |-> 110, loudness |-> -15, key |-> 0, mode |-> 1]

\* A playlist of two dense groups of DenseGroup equal tracks each and one
\* track far from both.
DenseWithOutlier ==
  List([i \in 1..(2 * DenseGroup + 1) |->
    TrackOf(TrackId("by_id", i), FALSE,
            IF i <= DenseGroup THEN HiProfile
            ELSE IF i <= 2 * DenseGroup THEN LoProfile
            ELSE OutlierProfile)])

\* A playlist of songs of both kinds whose last track, a recording unlike
\* either, came without its valence.
MixedWithGap ==
  Playlist(MaxTracks - 1, 0, <<Without(OutlierProfile, {"valence"})>>, "by_id")

\* The playlists the callers hold.
Playlists ==
  {p \in InputPlaylists : Len(p) <= MaxTracks} \cup {DenseWithOutlier, MixedWithGap}

\* ============================================================ imputation
\* Lines 163-166: tempo is normalised to 0..1 before it enters the matrix.
NormalizeTempo(value) == Min2(Max2(((value - 50) * Unit) \div 150, 0), Unit)

\* One row of feature_matrix (lines 153-170): NaN is None.
MatrixRow(track) ==
  List([j \in 1..Len(AFS_AUDIO_FEATURES) |->
     LET feature == AFS_AUDIO_FEATURES[j]
         value == getattr(track, feature)
     IN IF value = None THEN None
        ELSE IF feature = "tempo" THEN NormalizeTempo(value) ELSE value])

RowHasMissing(row) == \E j \in 1..Len(row) : row[j] = None

\* AudioFeaturesService._clamp_feature_value
_clamp_feature_value(feature, value) ==
  IF feature = "tempo" THEN Max2(50, Min2(200, value))
  ELSE IF feature \in {"key", "mode"} THEN value
  ELSE Max2(0, Min2(Unit, value))

\* AudioFeaturesService._fill_with_defaults
_fill_with_defaults(ts) ==
  [i \in 1..Len(ts) |->
     [ts[i] EXCEPT !.f =
        [x \in DOMAIN @ |->
           IF x \in Range(AFS_AUDIO_FEATURES) /\ @[x] = None
             THEN FEATURE_DEFAULTS[x] ELSE @[x]]]]

\* statistics.median of a non-empty set of (index, value) pairs' values
RECURSIVE SortedInsert(_, _)
SortedInsert(s, v) ==
  IF s = <<>> THEN <<v>>
  ELSE IF v <= Head(s) THEN <<v>> \o s
  ELSE <<Head(s)>> \o SortedInsert(Tail(s), v)

RECURSIVE SortAsc(_)
SortAsc(s) == IF s = <<>> THEN <<>> ELSE SortedInsert(SortAsc(Tail(s)), Head(s))

RECURSIVE SetToSortedSeq(_)
\* sorted(list(S))
SetToSortedSeq(S) ==
  IF S = {} THEN <<>> ELSE <<MinOf(S)>> \o SetToSortedSeq(S \ {MinOf(S)})

\* statistics.median_low: the lower of the two middle values.
MedianLow(values) ==
  LET s == SortAsc(values)
  IN s[(Len(s) + 1) \div 2]

Median(values) ==
  LET s == SortAsc(values)
      n == Len(s)
  IN IF n % 2 = 1 THEN s[(n + 1) \div 2]
     ELSE (s[n \div 2] + s[(n \div 2) + 1]) \div 2

KnownValues(ts, feature) ==
  LET idx == {i \in 1..Len(ts) : getattr(ts[i], feature) # None}
      RECURSIVE collect(_)
      collect(i) ==
        IF i > Len(ts) THEN <<>>
        ELSE IF i \in idx THEN <<getattr(ts[i], feature)>> \o collect(i + 1)
        ELSE collect(i + 1)
  IN collect(1)

\* lines 226-240: the per-descriptor statistic
feature_stats(ts) ==
  Dict([x \in Range(AFS_AUDIO_FEATURES) |->
     LET values == KnownValues(ts, x)
     IN IF values # <<>> THEN Median(values) ELSE FEATURE_DEFAULTS[x]])

\* Statistical imputation that writes the statistic into every track.
StatisticalImputationUnguarded(ts) ==
  LET stats == feature_stats(ts)
  IN List([i \in 1..Len(ts) |->
        [ts[i] EXCEPT !.f =
           Dict([x \in DOMAIN @ |->
              IF x \in Range(AFS_AUDIO_FEATURES) THEN stats[x] ELSE @[x]])]])

\* AudioFeaturesService._statistical_imputation
_statistical_imputation(ts) ==
  LET stats == feature_stats(ts)
  IN [i \in 1..Len(ts) |->
        [ts[i] EXCEPT !.f =
           [x \in DOMAIN @ |->
              IF x \in Range(AFS_AUDIO_FEATURES) /\ @[x] = None
                THEN stats[x] ELSE @[x]]]]
\* ------------------------------------------------ neighbor-based estimator
RECURSIVE ISqrtFrom(_, _)
ISqrtFrom(n, r) == IF r * r <= n THEN r ELSE ISqrtFrom(n, (r + n \div r) \div 2)
\* floor of the square root
ISqrt(n) == IF n <= 0 THEN 0 ELSE ISqrtFrom(n, Min2(n, 46340))

\* sklearn KNNImputer(n_neighbors, weights="distance").fit_transform on the
\* matrix: nan-euclidean distance over the co-present columns, the n_neighbors
\* nearest donors of the column, weights 1/distance (an exact match wins), the
\* column mean when no donor is comparable.
CoPresent(m, i, r) == {c \in 1..Len(m[i]) : m[i][c] # None /\ m[r][c] # None}

NanDistance(m, i, r) ==
  LET co == CoPresent(m, i, r)
      sq == Dict([c \in co |-> (m[i][c] - m[r][c]) * (m[i][c] - m[r][c])])
  IN ISqrt((SumOver(co, sq) * Len(m[i])) \div Cardinality(co))

KnnEstimate(m, n_neighbors, i, j) ==
  LET donors == {r \in 1..Len(m) : m[r][j] # None}
      usable == {r \in donors : CoPresent(m, i, r) # {}}
      d == Dict([r \in usable |-> NanDistance(m, i, r)])
      before(s, r) == d[s] < d[r] \/ (d[s] = d[r] /\ s < r)
      nearest == {r \in usable : Cardinality({s \in usable : before(s, r)}) < n_neighbors}
      exact == {r \in nearest : d[r] = 0}
      w == Dict([r \in nearest |-> 10000 \div d[r]])
      col == Dict([r \in donors |-> m[r][j]])
  IN IF usable = {} THEN SumOver(donors, col) \div Cardinality(donors)
     ELSE IF exact # {} THEN SumOver(exact, col) \div Cardinality(exact)
     ELSE SumOver(nearest, [r \in nearest |-> col[r] * w[r]]) \div SumOver(nearest, w)

KNNImputer_fit_transform(m, n_neighbors) ==
  List([i \in 1..Len(m) |->
     List([j \in 1..Len(m[i]) |->
        IF m[i][j] # None THEN m[i][j] ELSE KnnEstimate(m, n_neighbors, i, j)])])

\* Lines 190-202: write the estimates back, never over a present value.
KnnWriteBack(ts, imputed_matrix) ==
  [i \in 1..Len(ts) |->
     [ts[i] EXCEPT !.f =
        [x \in DOMAIN @ |->
           IF x \in Range(AFS_AUDIO_FEATURES) /\ @[x] = None
             THEN LET j == CHOOSE k \in 1..Len(AFS_AUDIO_FEATURES) : AFS_AUDIO_FEATURES[k] = x
                      value == imputed_matrix[i][j]
                  IN _clamp_feature_value(x,
                       IF x = "tempo" THEN ((value * 150) \div Unit) + 50 ELSE value)
             ELSE @[x]]]]

\* Line 186: self.imputer.set_params(n_neighbors=n_neighbors); the value is the
\* neighbor count the shared imputer holds afterwards.
set_params(n_neighbors_before, n_neighbors) == n_neighbors

\* The fit made with the neighbor count found in the imputer, the new count
\* stored only afterwards.
FitThenSetParams(feature_matrix, n_neighbors_before, n_neighbors) ==
  [imputed_matrix |-> KNNImputer_fit_transform(feature_matrix, n_neighbors_before),
   n_neighbors |-> set_params(n_neighbors_before, n_neighbors)]

\* Lines 186-188: the neighbor count is stored in the imputer, then the imputer
\* is fitted on the matrix of this call.
SetParamsThenFit(feature_matrix, n_neighbors_before, n_neighbors) ==
  [imputed_matrix |->
     KNNImputer_fit_transform(feature_matrix, set_params(n_neighbors_before, n_neighbors)),
   n_neighbors |-> set_params(n_neighbors_before, n_neighbors)]

\* AudioFeaturesService.impute_missing_features.  knn_raises: whether the
\* estimator's fit_transform raises (caught at line 206).  The result carries
\* the tracks as left by the call, the imputer's n_neighbors parameter after
\* it, and the branch taken.
impute_missing_features(ts, n_neighbors_before, knn_raises) ==
  IF Len(ts) < 3
    THEN [tracks |-> _fill_with_defaults(ts), n_neighbors |-> n_neighbors_before,
          path |-> "defaults"]
  ELSE
    LET feature_matrix == List([i \in 1..Len(ts) |-> MatrixRow(ts[i])])
        track_indices_with_missing ==
          {i \in 1..Len(ts) : RowHasMissing(feature_matrix[i])}
        complete_count == Len(ts) - Cardinality(track_indices_with_missing)
        n_neighbors == Min2(5, complete_count)
        fitted == SetParamsThenFit(feature_matrix, n_neighbors_before, n_neighbors)
    IN IF track_indices_with_missing = {}
         THEN [tracks |-> ts, n_neighbors |-> n_neighbors_before, path |-> "no_missing"]
       ELSE IF complete_count >= 3
         THEN IF knn_raises
                THEN [tracks |-> _statistical_imputation(ts),
                      n_neighbors |-> set_params(n_neighbors_before, n_neighbors),
                      path |-> "knn_failed"]
                ELSE [tracks |-> KnnWriteBack(ts, fitted.imputed_matrix),
                      n_neighbors |-> fitted.n_neighbors, path |-> "knn"]
       ELSE [tracks |-> _statistical_imputation(ts), n_neighbors |-> n_neighbors_before,
             path |-> "statistical"]

\* AudioFeaturesService.fetch_and_impute_features: the provider is asked for
\* the tracks with unset descriptors; outcome says for which of them it has
\* an answer ("none", "some": the first one, "all"); what it returns fills
\* the unset columns, and whatever stays unset is imputed.
fetch_and_impute_features(ts, outcome, n_neighbors_before, knn_raises) ==
  LET needing == {i \in 1..Len(ts) : RowHasMissing(MatrixRow(ts[i]))}
      found == IF outcome = "all" THEN needing
               ELSE IF outcome = "some" /\ needing # {} THEN {MinOf(needing)}
               ELSE {}
      fetched == List([i \in 1..Len(ts) |->
                   IF i \in found
                     THEN [ts[i] EXCEPT !.f =
                             [x \in DOMAIN @ |->
                                IF @[x] = None THEN OutlierProfile[x] ELSE @[x]]]
                     ELSE ts[i]])
  IN impute_missing_features(fetched, n_neighbors_before, knn_raises)

\* ============================================================ quality reporter
RECURSIVE GCD(_, _)
GCD(a, b) == IF b = 0 THEN a ELSE GCD(b, a % b)

\* The float n / d of two counts, kept exact: equal quotients are equal values.
Ratio(n, d) == [num |-> n \div GCD(n, d), den |-> d \div GCD(n, d)]

\* r >= 0.p for a one-decimal literal 0.p; the division of two counts is
\* correctly rounded, so the float comparison is the comparison of the quotients.
AtLeastTenths(r, p) == 10 * r.num >= p * r.den

\* The tiers with the thresholds themselves left out of their tier.
QualityRecommendationStrict(completeness) ==
  IF ~AtLeastTenths(completeness, 9) /\ AtLeastTenths(completeness, 7)
       /\ 10 * completeness.num # 7 * completeness.den
    THEN "Good data quality - clustering analysis will be reliable with minor imputation"
  ELSE IF AtLeastTenths(completeness, 9) /\ 10 * completeness.num # 9 * completeness.den
    THEN "Excellent data quality - clustering analysis will be highly reliable"
  ELSE IF AtLeastTenths(completeness, 5) /\ 10 * completeness.num # 5 * completeness.den
    THEN "Moderate data quality - clustering analysis will be moderately reliable after imputation"
  ELSE "Poor data quality - recommend fetching more complete data for reliable analysis"

\* AudioFeaturesService._get_quality_recommendation
_get_quality_recommendation(completeness) ==
  IF AtLeastTenths(completeness, 9)
    THEN "Excellent data quality - clustering analysis will be highly reliable"
  ELSE IF AtLeastTenths(completeness, 7)
    THEN "Good data quality - clustering analysis will be reliable with minor imputation"
  ELSE IF AtLeastTenths(completeness, 5)
    THEN "Moderate data quality - clustering analysis will be moderately reliable after imputation"
  ELSE "Poor data quality - recommend fetching more complete data for reliable analysis"

\* The report before any call (no keys set).
NoQuality ==
  [error |-> "", total_tracks |-> 0, overall_completeness |-> Ratio(0, 1),
   feature_quality |-> [x \in Range(AFS_AUDIO_FEATURES) |->
                          [present |-> 0, missing |-> 0, completeness |-> Ratio(0, 1)]],
   recommendation |-> ""]

\* Lines 313-315: the tracks on which the feature is unset.
missing_count(ts, feature) ==
  Cardinality({i \in 1..Len(ts) : getattr(ts[i], feature) = None})

\* AudioFeaturesService.analyze_data_quality
analyze_data_quality(ts) ==
  LET total_tracks == Len(ts)
      overall_missing == SumSeq([k \in 1..Len(AFS_AUDIO_FEATURES) |->
                                  missing_count(ts, AFS_AUDIO_FEATURES[k])])
      total_possible_values == total_tracks * Len(AFS_AUDIO_FEATURES)
  IN IF total_tracks = 0 THEN [NoQuality EXCEPT !.error = "No tracks provided"]
     ELSE [error |-> "",
           total_tracks |-> total_tracks,
           overall_completeness |->
             Ratio(total_possible_values - overall_missing, total_possible_values),
           feature_quality |-> Dict([x \in Range(AFS_AUDIO_FEATURES) |->
             [present |-> total_tracks - missing_count(ts, x),
              missing |-> missing_count(ts, x),
              completeness |-> Ratio(total_tracks - missing_count(ts, x), total_tracks)]]),
           recommendation |->
             _get_quality_recommendation(
               Ratio(total_possible_values - overall_missing, total_possible_values))]

\* ============================================================ preprocessor
\* Standardized (clustering-ready) values are in hundredths.
ZUnit == 100

\* ClusteringService.LOG_SCALE_FEATURES
LOG_SCALE_FEATURES == {"tempo", "loudness"}

\* ClusteringService.FEATURE_WEIGHTS, in tenths.
FEATURE_WEIGHTS ==
  [danceability |-> 12, energy |-> 12, valence |-> 11, acousticness |-> 10,
   instrumentalness |-> 9, speechiness |-> 8, liveness |-> 7, tempo |-> 10,
   loudness |-> 8]

\* FEATURE_DEFAULTS.get(feature, 0.5), in hundredths of the descriptor's unit
DefaultOrHalf(feature) ==
  IF feature \in DOMAIN FEATURE_DEFAULTS
    THEN (IF feature = "tempo" THEN FEATURE_DEFAULTS[feature] * Unit
          ELSE FEATURE_DEFAULTS[feature])
    ELSE 50

RECURSIVE Log2Floor(_)
Log2Floor(v) == IF v < 2 THEN 0 ELSE 1 + Log2Floor(v \div 2)

RECURSIVE Pow2(_)
Pow2(e) == IF e = 0 THEN 1 ELSE 2 * Pow2(e - 1)

\* np.log of an integer v >= 1, in hundredths: ln v = e ln 2 + 2 atanh(y),
\* y = (v - 2^e)/(v + 2^e), the series cut after y^7.
Ln100(v) ==
  LET e == Log2Floor(v)
      p == Pow2(e)
      y == ((v - p) * 10000) \div (v + p)
      y2 == (y * y) \div 10000
      y3 == (y2 * y) \div 10000
      y5 == (y3 * y2) \div 10000
      y7 == (y5 * y2) \div 10000
  IN (e * 6931 + 2 * (y + y3 \div 3 + y5 \div 5 + y7 \div 7)) \div 100

\* Lines 88-96: the raw 0..1 value kept for labeling, in hundredths.
RawValue(feature, value) ==
  IF feature = "tempo" THEN Min2(Max2(((value - 60) * Unit) \div (200 - 60), 0), Unit)
  ELSE IF feature = "loudness" THEN Min2(Max2(((value + 60) * Unit) \div 60, 0), Unit)
  ELSE Min2(Max2(value, 0), Unit)

\* Line 100: the guard under which a descriptor value is log-scaled.
IsLogScaled(feature, value) == feature \in LOG_SCALE_FEATURES /\ value > 0

\* Lines 99-110: the value that enters features_array, in hundredths of the
\* column's unit (ratio, ln BPM, ln dB, or the unscaled BPM / dB).
ClusteringValue(feature, value) ==
  IF IsLogScaled(feature, value)
    THEN (IF feature = "tempo" THEN Ln100(Max2(value, 1))
          ELSE Ln100(Max2(value + 60, 1)))
  ELSE IF feature \in {"tempo", "loudness"} THEN value * Unit
  ELSE value

\* Lines 80-118: one row of features_array and of raw_features_array.
TrackFeatures(track) ==
  List([j \in 1..Len(AUDIO_FEATURES) |->
     LET feature == AUDIO_FEATURES[j]
         value == getattr(track, feature)
     IN IF value # None THEN ClusteringValue(feature, value) ELSE DefaultOrHalf(feature)])

RawTrackFeatures(track) ==
  List([j \in 1..Len(AUDIO_FEATURES) |->
     LET feature == AUDIO_FEATURES[j]
         value == getattr(track, feature)
     IN IF value # None THEN RawValue(feature, value) ELSE DefaultOrHalf(feature)])

\* Lines 107-108: the descriptors reported as log-scaled.
LogScaledFeatures(ts) ==
  {x \in Range(AUDIO_FEATURES) :
     \E i \in 1..Len(ts) : getattr(ts[i], x) # None /\ IsLogScaled(x, getattr(ts[i], x))}

\* sklearn StandardScaler().fit_transform on one column, in ZUnit: zero mean,
\* unit population variance; a constant column becomes zero.
StandardizeColumn(col) ==
  LET n == Len(col)
      lo == MinOf(Range(col))
      dv == ((MaxOf(Range(col)) - lo) \div 2000) + 1
      c == List([i \in 1..n |-> (col[i] - lo) \div dv])
      s == SumSeq(c)
      q == SumSeq([i \in 1..n |-> c[i] * c[i]])
      sd == ISqrt(n * q - s * s)
  IN List([i \in 1..n |-> IF sd = 0 THEN 0 ELSE ((n * c[i] - s) * ZUnit) \div sd])

\* Lines 136-147: standardize every column, then apply the feature weights.
NormalizedFeatures(features_array) ==
  LET n == Len(features_array)
      cols == List([j \in 1..Len(AUDIO_FEATURES) |->
                 StandardizeColumn(List([i \in 1..n |-> features_array[i][j]]))])
  IN List([i \in 1..n |->
        List([j \in 1..Len(AUDIO_FEATURES) |->
           (cols[j][i] * FEATURE_WEIGHTS[AUDIO_FEATURES[j]]) \div 10])])

\* ClusteringService._preprocess_features
_preprocess_features(ts) ==
  LET features_array == List([i \in 1..Len(ts) |-> TrackFeatures(ts[i])])
      normalized == NormalizedFeatures(features_array)
  IN [features |-> normalized,
      raw_features |-> List([i \in 1..Len(ts) |-> RawTrackFeatures(ts[i])]),
      log_scaled_features |-> LogScaledFeatures(ts),
      outlier_count |->
        Cardinality({<<i, j>> \in (1..Len(ts)) \X (1..Len(AUDIO_FEATURES)) :
                       Abs(normalized[i][j]) > 3 * ZUnit})]

\* ======================================================= library estimators
\* Squared Euclidean distance between two rows, and the distance matrix.
SqDist(a, b) == SumSeq([j \in 1..Len(a) |-> (a[j] - b[j]) * (a[j] - b[j])])

DistanceMatrix(X) ==
  List([i \in 1..Len(X) |-> List([j \in 1..Len(X) |-> ISqrt(SqDist(X[i], X[j]))])])

\* The process-global random state an estimator built without random_state
\* would draw from; it is whatever earlier work in the process left behind.
GlobalRngStates == {0, 1}

\* An estimator constructed without random_state.
unseeded == None

\* The seed every estimator of the engine is constructed with.
random_state == 42

\* sklearn check_random_state: a given seed, else the process-global state.
check_random_state(seed, global_rng) == IF seed = None THEN global_rng ELSE seed

\* Index of the row nearest to x among centers (first on ties).
NearestCenter(x, centers) ==
  LET d == List([c \in 1..Len(centers) |-> SqDist(x, centers[c])])
  IN CHOOSE c \in 1..Len(centers) :
       \A o \in 1..Len(centers) : d[c] < d[o] \/ (d[c] = d[o] /\ c <= o)

MeanRow(X, members, fallback) ==
  IF members = {} THEN fallback
  ELSE List([j \in 1..Len(fallback) |->
          SumOver(members, [i \in members |-> X[i][j]]) \div Cardinality(members)])

RECURSIVE SeedCenters(_, _, _)
\* Seeding: the next center is the row farthest from the chosen ones.
SeedCenters(X, chosen, k) ==
  IF Len(chosen) >= k THEN chosen
  ELSE LET gap == List([i \in 1..Len(X) |->
                     MinOf({SqDist(X[i], X[chosen[c]]) : c \in 1..Len(chosen)})])
           far == CHOOSE i \in 1..Len(X) :
                    \A o \in 1..Len(X) : gap[i] > gap[o] \/ (gap[i] = gap[o] /\ i <= o)
       IN SeedCenters(X, Append(chosen, far), k)

\* A seeded centroid clustering: what KMeans(n_clusters=k, random_state=seed)
\* .fit_predict, and the estimators initialised by it, compute.  The seed
\* picks the first center; one Lloyd update follows.  Labels are 0..k-1.
CentroidLabels(X, k, seed) ==
  LET first == (seed % Len(X)) + 1
      seeds == SeedCenters(X, <<first>>, k)
      c0 == List([c \in 1..k |-> X[seeds[c]]])
      a0 == List([i \in 1..Len(X) |-> NearestCenter(X[i], c0)])
      c1 == List([c \in 1..k |-> MeanRow(X, {i \in 1..Len(X) : a0[i] = c}, c0[c])])
  IN List([i \in 1..Len(X) |-> NearestCenter(X[i], c1) - 1])

\* KMeans(...).fit_predict: raises ValueError unless 1 <= k <= n_samples.
KMeans_fit_predict(X, k, seed) ==
  IF k < 1 \/ k > Len(X) THEN [error |-> "ValueError", labels |-> <<>>]
  ELSE [error |-> "", labels |-> CentroidLabels(X, k, seed)]

\* GaussianMixture(n_components=k).fit(X).predict(X); k-means initialised.
GaussianMixture_fit_predict(X, k, seed) ==
  IF k < 1 \/ k > Len(X) THEN [error |-> "ValueError", labels |-> <<>>]
  ELSE [error |-> "", labels |-> CentroidLabels(X, k, seed)]

\* SpectralClustering(n_clusters=k, affinity="rbf").fit_predict(X); the
\* embedding is labelled by k-means.
SpectralClustering_fit_predict(X, k, seed) ==
  IF k < 1 \/ k > Len(X) THEN [error |-> "ValueError", labels |-> <<>>]
  ELSE [error |-> "", labels |-> CentroidLabels(X, k, seed)]

\* ---- DBSCAN
\* The playlist lengths over which the cluster-count arithmetic is examined.
MaxSamples == 100

\* Radii are in EpsScale-ths of a distance unit, so that the floor min_eps
\* (1e-4) is the integer 1.
EpsScale == 100
min_eps == 1

WithinEps(d, eps) == d * EpsScale <= eps

RECURSIVE LowestReachable(_, _, _)
\* comp[i]: the lowest core index connected to core point i
LowestReachable(comp, adj, rounds) ==
  IF rounds = 0 THEN comp
  ELSE LowestReachable(
         Dict([i \in DOMAIN comp |-> MinOf({comp[j] : j \in adj[i]} \cup {comp[i]})]),
         adj, rounds - 1)

\* DBSCAN(eps, min_samples).fit_predict on the distance matrix D: clusters are
\* numbered from 0 in index order of their first core point, a border point
\* joins the first cluster that reaches it, noise is -1.
DBSCAN_fit_predict(D, eps, min_samples) ==
  LET n == Len(D)
      nbrs == List([i \in 1..n |-> {j \in 1..n : WithinEps(D[i][j], eps)}])
      core == {i \in 1..n : Cardinality(nbrs[i]) >= min_samples}
      adj == Dict([i \in core |-> nbrs[i] \cap core])
      comp == LowestReachable(Dict([i \in core |-> i]), adj, Cardinality(core))
      roots == {comp[i] : i \in core}
      number(r) == Cardinality({q \in roots : q < r})
  IN List([i \in 1..n |->
        IF i \in core THEN number(comp[i])
        ELSE IF nbrs[i] \cap core = {} THEN -1
        ELSE MinOf({number(comp[j]) : j \in nbrs[i] \cap core})])

\* sklearn silhouette_score on the distance matrix, in thousandths; every
\* label (noise included) is a cluster.  Raises ValueError unless
\* 2 <= number of labels <= n_samples - 1.
SilUnit == 1000

SilhouetteSample(D, labels, i) ==
  LET n == Len(labels)
      own == {j \in 1..n : labels[j] = labels[i]} \ {i}
      others == Range(labels) \ {labels[i]}
      meanTo(S) == SumOver(S, [j \in S |-> D[i][j] * 100]) \div Cardinality(S)
      a == meanTo(own)
      b == MinOf({meanTo({j \in 1..n : labels[j] = l}) : l \in others})
  IN IF own = {} \/ Max2(a, b) = 0 THEN 0
     ELSE ((b - a) * SilUnit) \div Max2(a, b)

silhouette_score(D, labels) ==
  LET n == Len(labels)
      k == Cardinality(Range(labels))
  IN IF k < 2 \/ k > n - 1 THEN [error |-> "ValueError", value |-> 0]
     ELSE [error |-> "",
           value |-> SumSeq([i \in 1..n |-> SilhouetteSample(D, labels, i)]) \div n]

\* sklearn metrics used by the cluster-count selector, on labels 0..k-1.
ClusterMembers(labels, l) == {i \in 1..Len(labels) : labels[i] = l}

ClusterMean(X, labels, l) == MeanRow(X, ClusterMembers(labels, l), X[1])

\* KMeans.inertia_: within-cluster sum of squared distances.
Inertia(X, labels) ==
  LET cluster_centers_ == Dict([l \in Range(labels) |-> ClusterMean(X, labels, l)])
  IN SumSeq([i \in 1..Len(X) |-> SqDist(X[i], cluster_centers_[labels[i]])])

\* calinski_harabasz_score, in hundredths (1.0 when the clusters are tight).
calinski_harabasz_score(X, labels) ==
  LET n == Len(X)
      ls == Range(labels)
      k == Cardinality(ls)
      all == MeanRow(X, 1..n, X[1])
      B == SumOver(ls, [l \in ls |->
             Cardinality(ClusterMembers(labels, l)) * SqDist(ClusterMean(X, labels, l), all)])
      W == Inertia(X, labels)
  IN IF W \div 100 = 0 THEN 100
     ELSE ((B \div 100) * (n - k) * 100) \div ((W \div 100) * (k - 1))

\* davies_bouldin_score, in hundredths.
davies_bouldin_score(X, labels) ==
  LET ls == Range(labels)
      mean == Dict([l \in ls |-> ClusterMean(X, labels, l)])
      spread == Dict([l \in ls |->
                   LET m == ClusterMembers(labels, l)
                   IN SumOver(m, [i \in m |-> ISqrt(SqDist(X[i], mean[l]))]) \div Cardinality(m)])
      ratio(a, b) ==
        LET d == ISqrt(SqDist(mean[a], mean[b]))
        IN IF d = 0 THEN 0 ELSE ((spread[a] + spread[b]) * 100) \div d
      worst == Dict([l \in ls |-> MaxOf({ratio(l, o) : o \in ls \ {l}})])
  IN SumOver(ls, worst) \div Cardinality(ls)

\* ====================================================== cluster-count selector
\* normalize_metric (lines 231-239), in thousandths.
normalize_metric(values, higher_is_better) ==
  LET min_val == MinOf(Range(values))
      max_val == MaxOf(Range(values))
  IN List([i \in 1..Len(values) |->
        IF max_val = min_val THEN 500
        ELSE IF higher_is_better
          THEN ((values[i] - min_val) * 1000) \div (max_val - min_val)
          ELSE ((max_val - values[i]) * 1000) \div (max_val - min_val)])

\* ClusteringService._calculate_elbow_scores; 500 stands for the constant 0.5.
_calculate_elbow_scores(wcss_values) ==
  LET n == Len(wcss_values)
  IN IF n < 3 THEN [i \in 1..n |-> 500]
     ELSE List([i \in 1..n |->
             IF i = 1 \/ i = n THEN 0
             ELSE Abs((wcss_values[i + 1] - wcss_values[i])
                      - (wcss_values[i] - wcss_values[i - 1]))])

\* Lines 266-280: the composite score of every candidate, in thousandths.
composite_scores(evaluation_results) ==
  LET n == Len(evaluation_results)
      col(name) == List([i \in 1..n |-> evaluation_results[i][name]])
      norm_silhouette == normalize_metric(col("silhouette"), TRUE)
      norm_calinski == normalize_metric(col("calinski_harabasz"), TRUE)
      norm_db == normalize_metric(col("davies_bouldin"), FALSE)
      norm_elbow == normalize_metric(_calculate_elbow_scores(col("wcss")), TRUE)
  IN List([i \in 1..n |->
        Max2(0, (350 * norm_silhouette[i] + 200 * norm_calinski[i]
                 + 250 * norm_elbow[i] + 200 * norm_db[i]) \div 1000
                - 50 * (evaluation_results[i].k - 2))])

\* ClusteringService._select_optimal_k_multi_criteria
_select_optimal_k_multi_criteria(evaluation_results) ==
  IF Len(evaluation_results) = 1 THEN evaluation_results[1].k
  ELSE LET scores == composite_scores(evaluation_results)
           best_idx == CHOOSE i \in 1..Len(scores) :
                         /\ scores[i] = MaxOf(Range(scores))
                         /\ \A o \in 1..(i - 1) : scores[o] # scores[i]
       IN evaluation_results[best_idx].k

max_clusters_default == 8

RECURSIVE EvaluateCandidates(_, _, _, _, _)
\* Lines 175-208: one entry per candidate k whose reference k-means pass has
\* at least 2 clusters.
EvaluateCandidates(X, D, k, max_clusters, g) ==
  IF k > max_clusters THEN <<>>
  ELSE LET labels == KMeans_fit_predict(X, k, check_random_state(random_state, g)).labels
           sil == silhouette_score(D, labels)
           rest == EvaluateCandidates(X, D, k + 1, max_clusters, g)
       IN IF Cardinality(Range(labels)) < 2 \/ sil.error # "" THEN rest
          ELSE <<[k |-> k,
                  silhouette |-> sil.value,
                  calinski_harabasz |-> calinski_harabasz_score(X, labels),
                  wcss |-> Inertia(X, labels) \div 100,
                  davies_bouldin |-> davies_bouldin_score(X, labels)]>> \o rest

\* ClusteringService._find_optimal_clusters
_find_optimal_clusters(X, D, g) ==
  IF Len(X) < 4 THEN Min2(Len(X) - 1, 2)
  ELSE LET max_clusters == Min2(max_clusters_default, Len(X) - 1)
           evaluation_results == EvaluateCandidates(X, D, 2, max_clusters, g)
       IN IF evaluation_results = <<>> THEN 2
          ELSE _select_optimal_k_multi_criteria(evaluation_results)

\* ================================================================ dispatcher
\* algo_metadata: keys is the set of keys the dict holds; a field whose key is
\* absent holds its filler.
AlgoMetadata(method) ==
  [method |-> method, keys |-> {"method"}, n_clusters |-> None,
   fallback_reason |-> "", eps |-> None, min_samples |-> None, eps_percentile |-> None]

Dispatch(error, labels, meta) == [error |-> error, labels |-> labels, meta |-> meta]

\* Lines 344-351 / 539-555: the estimator run with the resolved cluster count k.
FitWithCount(X, method, k, g, extra_keys) ==
  LET seed == check_random_state(random_state, g)
      fit == IF method = "kmeans" THEN KMeans_fit_predict(X, k, seed)
             ELSE IF method = "gaussian_mixture" THEN GaussianMixture_fit_predict(X, k, seed)
             ELSE SpectralClustering_fit_predict(X, k, seed)
      meta == [AlgoMetadata(method) EXCEPT !.n_clusters = k, !.keys = @ \cup {"n_clusters"}]
  IN IF fit.error # "" THEN Dispatch(fit.error, <<>>, meta)
     ELSE Dispatch("", fit.labels, [meta EXCEPT !.keys = @ \cup extra_keys])

\* A branch that consults the selector even when the caller gave a count.
FixedCountBranchAlwaysSelecting(X, D, method, n_clusters, g, extra_keys) ==
  FitWithCount(X, method, _find_optimal_clusters(X, D, g), g, extra_keys)

\* Lines 339-351 / 534-555: a branch whose estimator takes a cluster count;
\* an absent count is found first.
FixedCountBranch(X, D, method, n_clusters, g, extra_keys) ==
  FitWithCount(X, method,
               IF n_clusters = None THEN _find_optimal_clusters(X, D, g) ELSE n_clusters,
               g, extra_keys)

\* The k-means fallback without its record in the metadata.
KMeansFallbackUnflagged(X, fallback_clusters, reason, g) ==
  LET fit == KMeans_fit_predict(X, fallback_clusters, check_random_state(random_state, g))
      meta == [AlgoMetadata("dbscan") EXCEPT
                 !.n_clusters = fallback_clusters, !.keys = @ \cup {"n_clusters"}]
  IN IF fit.error # "" THEN Dispatch(fit.error, <<>>, AlgoMetadata("dbscan"))
     ELSE Dispatch("", fit.labels, meta)

\* Lines 363-369, 472-479, 491-500: the k-means fallback of the density path.
KMeansFallback(X, fallback_clusters, reason, g) ==
  LET fit == KMeans_fit_predict(X, fallback_clusters, check_random_state(random_state, g))
      meta == [AlgoMetadata("dbscan") EXCEPT
                 !.n_clusters = fallback_clusters,
                 !.fallback_reason = reason,
                 !.keys = @ \cup {"fallback_to_kmeans", "fallback_reason", "n_clusters"}]
  IN IF fit.error # "" THEN Dispatch(fit.error, <<>>, AlgoMetadata("dbscan"))
     ELSE Dispatch("", fit.labels, meta)

\* np.percentile (linear interpolation) of an ascending sequence, times
\* EpsScale; pct is a whole number.
Percentile(sorted, pct) ==
  LET pos == (Len(sorted) - 1) * pct
      lo == (pos \div 100) + 1
      fr == pos % 100
  IN IF fr = 0 THEN sorted[lo] * EpsScale
     ELSE sorted[lo] * EpsScale + (fr * (sorted[lo + 1] - sorted[lo]) * EpsScale) \div 100

\* Lines 371-374: the ascending distances to the n_neighbors-th neighbour,
\* the point itself counted first.
KDistances(D, n_neighbors) ==
  SortAsc(List([i \in 1..Len(D) |-> SortAsc(D[i])[n_neighbors]]))

candidate_percentiles == <<60, 70, 75, 80, 85, 90, 95>>

\* Lines 403-404: sorted({base_min_samples, max(3, n // 8)})
candidate_min_samples(n) ==
  LET base_min_samples == Max2(2, n \div 10)
      other == Max2(3, n \div 8)
  IN IF base_min_samples = other THEN <<other>>
     ELSE IF base_min_samples < other THEN <<base_min_samples, other>>
     ELSE <<other, base_min_samples>>

\* The percentile taken as the radius, whatever its value.
UnguardedEps(distances, pct) == Percentile(distances, pct)

\* safe_eps (lines 412-428)
safe_eps(distances, pct) ==
  LET e == Percentile(distances, pct)
      non_zero == SelectSeq(distances, LAMBDA d : d > 0)
      e2 == IF e <= 0 /\ non_zero # <<>> THEN Percentile(non_zero, pct) ELSE e
  IN IF e2 <= 0 THEN min_eps ELSE e2

NonNoise(labels) == Range(labels) \ {-1}
NoiseCount(labels) == Cardinality({i \in 1..Len(labels) : labels[i] = -1})

\* Lines 443-459: the score of one trial, in thousandths; degenerate trials
\* (fewer than 2 real clusters) have none.
TrialScore(D, labels) ==
  LET c == Cardinality(NonNoise(labels))
      s == silhouette_score(D, labels)
      sil == IF s.error # "" THEN 0 ELSE s.value
  IN sil - 60 * Max2(0, Abs(4 - c)) - (300 * NoiseCount(labels)) \div Len(labels)

NoBest == [found |-> FALSE, score |-> -1000000000, labels |-> <<>>,
           eps |-> None, ms |-> None, pct |-> None]

\* The grid in visiting order: percentile outer, min_samples inner.
Grid(n) ==
  LET mss == candidate_min_samples(n)
  IN List([t \in 1..(Len(candidate_percentiles) * Len(mss)) |->
        [pct |-> candidate_percentiles[((t - 1) \div Len(mss)) + 1],
         ms |-> mss[((t - 1) % Len(mss)) + 1]]])

\* A comparison that lets a later trial of equal score replace the best.
ReplacesBestOnTie(labels, score, best) ==
  Cardinality(NonNoise(labels)) >= 2 /\ score >= best.score

\* Lines 447-449 and 461: a trial with fewer than 2 real clusters is skipped;
\* another replaces the best so far only with a strictly higher score.
ReplacesBest(labels, score, best) ==
  Cardinality(NonNoise(labels)) >= 2 /\ score > best.score

RECURSIVE SearchFrom(_, _, _, _, _)
\* Lines 431-466: the trials from t on, given the best so far.
SearchFrom(D, distances, grid, t, best) ==
  IF t > Len(grid) THEN best
  ELSE LET e == safe_eps(distances, grid[t].pct)
           labels == DBSCAN_fit_predict(D, e, grid[t].ms)
           score == TrialScore(D, labels)
           better == ReplacesBest(labels, score, best)
       IN SearchFrom(D, distances, grid, t + 1,
            IF better
              THEN [found |-> TRUE, score |-> score, labels |-> labels,
                    eps |-> e, ms |-> grid[t].ms, pct |-> grid[t].pct]
              ELSE best)

\* Every noise point put into the first of the non-noise clusters.
ReassignNoiseToFirst(X, cluster_labels) ==
  List([i \in 1..Len(cluster_labels) |->
    IF cluster_labels[i] = -1 /\ NonNoise(cluster_labels) # {}
      THEN MinOf(NonNoise(cluster_labels))
      ELSE cluster_labels[i]])

\* Lines 503-521: every noise point takes the label of the nearest centroid
\* of the non-noise clusters (squared Euclidean distance, first on ties).
ReassignNoise(X, cluster_labels) ==
  LET unique == SetToSortedSeq(NonNoise(cluster_labels))
      centroids == List([u \in 1..Len(unique) |-> ClusterMean(X, cluster_labels, unique[u])])
  IN List([i \in 1..Len(cluster_labels) |->
        IF cluster_labels[i] = -1 /\ unique # <<>>
          THEN unique[NearestCenter(X[i], centroids)]
          ELSE cluster_labels[i]])

\* A fallback count without its upper limit.
FallbackClustersUncapped(n_samples) == Max2(2, n_samples \div 15)

\* Lines 472 and 494: fallback_clusters = min(max(2, len(features) // 15), 5)
FallbackClusters(n_samples) == Min2(Max2(2, n_samples \div 15), 5)

\* Lines 468-531: what the density path does with the best trial of the grid.
AfterSearch(X, best, g) ==
  LET n_samples == Len(X)
      fallback_clusters == FallbackClusters(n_samples)
  IN IF ~best.found
       THEN KMeansFallback(X, fallback_clusters,
              "DBSCAN produced no valid multi-cluster results", g)
     ELSE IF Cardinality(NonNoise(best.labels)) <= 1
             \/ 2 * NoiseCount(best.labels) > Len(best.labels)
       THEN KMeansFallback(X, fallback_clusters,
              "Insufficient clusters or too much noise", g)
     ELSE
       LET reassigned == ReassignNoise(X, best.labels)
           cluster_labels == List([i \in 1..n_samples |-> reassigned[i] + 1])
       IN Dispatch("", cluster_labels,
            [AlgoMetadata("dbscan") EXCEPT
               !.eps = best.eps, !.min_samples = best.ms, !.eps_percentile = best.pct,
               !.n_clusters = Cardinality({l \in Range(cluster_labels) : l > 0}),
               !.keys = @ \cup {"eps", "min_samples", "eps_percentile", "n_clusters"}])

\* Lines 353-532: the density-based branch.
DbscanBranch(X, D, g) ==
  LET n_samples == Len(X)
      n_neighbors == Min2(4, n_samples - 1)
  IN IF n_neighbors < 2
       THEN KMeansFallback(X, Min2(Max2(2, n_samples - 1), 2), "Dataset too small", g)
     ELSE AfterSearch(X,
            SearchFrom(D, KDistances(D, n_neighbors), Grid(n_samples), 1, NoBest), g)

\* A dispatcher that treats every name it does not know as k-means.
DispatchDefaultingToKMeans(X, D, method, n_clusters, g) ==
  IF method = "dbscan" THEN DbscanBranch(X, D, g)
  ELSE IF method = "gaussian_mixture"
    THEN FixedCountBranch(X, D, method, n_clusters, g, {"aic", "bic"})
  ELSE IF method = "spectral" THEN FixedCountBranch(X, D, method, n_clusters, g, {})
  ELSE FixedCountBranch(X, D, "kmeans", n_clusters, g, {"inertia"})

\* ClusteringService._apply_clustering_algorithm
_apply_clustering_algorithm(X, D, method, n_clusters, g) ==
  IF method = "kmeans" THEN FixedCountBranch(X, D, method, n_clusters, g, {"inertia"})
  ELSE IF method = "dbscan" THEN DbscanBranch(X, D, g)
  ELSE IF method = "gaussian_mixture"
    THEN FixedCountBranch(X, D, method, n_clusters, g, {"aic", "bic"})
  ELSE IF method = "spectral" THEN FixedCountBranch(X, D, method, n_clusters, g, {})
  ELSE Dispatch("ValueError", <<>>, AlgoMetadata(method))

\* ============================================================ cluster labeler
\* A decision tree whose high-energy branch starts at 0.7 inclusive.
LabelClusterFromSeventy(center_features) ==
  LET energy == center_features["energy"]
      valence == center_features["valence"]
      danceability == center_features["danceability"]
      acousticness == center_features["acousticness"]
      instrumentalness == center_features["instrumentalness"]
  IN IF energy >= 70
       THEN (IF valence > 70
               THEN (IF danceability > 70 THEN "High-energy dance hits"
                     ELSE "Upbeat & energetic")
             ELSE IF valence < 40 THEN "Intense & aggressive"
             ELSE "High-energy tracks")
     ELSE IF energy < 40
       THEN (IF acousticness > 60
               THEN (IF valence < 40 THEN "Mellow & melancholic" ELSE "Acoustic & chill")
             ELSE IF valence < 40 THEN "Sad & slow"
             ELSE "Calm & relaxed")
     ELSE IF danceability > 70 THEN "Moderate dance tracks"
     ELSE IF acousticness > 60 THEN "Folk & acoustic"
     ELSE IF instrumentalness > 50 THEN "Instrumental pieces"
     ELSE IF valence > 70 THEN "Feel-good tracks"
     ELSE IF valence < 40 THEN "Bittersweet songs"
     ELSE "Balanced mix"

\* ClusteringService._label_cluster; the thresholds are in hundredths.
_label_cluster(center_features) ==
  LET energy == center_features["energy"]
      valence == center_features["valence"]
      danceability == center_features["danceability"]
      acousticness == center_features["acousticness"]
      instrumentalness == center_features["instrumentalness"]
  IN IF energy > 70
       THEN (IF valence > 70
               THEN (IF danceability > 70 THEN "High-energy dance hits"
                     ELSE "Upbeat & energetic")
             ELSE IF valence < 40 THEN "Intense & aggressive"
             ELSE "High-energy tracks")
     ELSE IF energy < 40
       THEN (IF acousticness > 60
               THEN (IF valence < 40 THEN "Mellow & melancholic" ELSE "Acoustic & chill")
             ELSE IF valence < 40 THEN "Sad & slow"
             ELSE "Calm & relaxed")
     ELSE IF danceability > 70 THEN "Moderate dance tracks"
     ELSE IF acousticness > 60 THEN "Folk & acoustic"
     ELSE IF instrumentalness > 50 THEN "Instrumental pieces"
     ELSE IF valence > 70 THEN "Feel-good tracks"
     ELSE IF valence < 40 THEN "Bittersweet songs"
     ELSE "Balanced mix"

\* Line 639: int(min(5, max(1, round(x * 5)))), round half to even.
bucket(x) ==
  LET q == (x * 5) \div Unit
      r == (x * 5) % Unit
      rounded == IF r * 2 > Unit THEN q + 1
                 ELSE IF r * 2 < Unit THEN q
                 ELSE IF q % 2 = 0 THEN q ELSE q + 1
  IN Min2(5, Max2(1, rounded))

\* Lines 634-640
descriptor(c) ==
  "E" \o ToString(bucket(c.center_features["energy"]))
  \o "-D" \o ToString(bucket(c.center_features["danceability"]))
  \o "-V" \o ToString(bucket(c.center_features["valence"]))

\* ClusteringService._deduplicate_labels
_deduplicate_labels(clusters) ==
  LET label_counts(base) == Cardinality({i \in 1..Len(clusters) : clusters[i].label = base})
  IN List([i \in 1..Len(clusters) |->
        IF label_counts(clusters[i].label) > 1
          THEN [clusters[i] EXCEPT !.label = @ \o " (" \o descriptor(clusters[i]) \o ")"]
          ELSE clusters[i]])

\* ============================================================= cluster_tracks
RECURSIVE FirstOccurrences(_, _)
\* The keys of clusters_dict in insertion order (lines 747-751).
FirstOccurrences(labels, seen) ==
  IF labels = <<>> THEN <<>>
  ELSE IF Head(labels) \in seen THEN FirstOccurrences(Tail(labels), seen)
  ELSE <<Head(labels)>> \o FirstOccurrences(Tail(labels), seen \cup {Head(labels)})

RECURSIVE IndicesOfOffByOne(_, _, _)
\* IndicesOf with the enumeration started one position late.
IndicesOfOffByOne(labels, l, from) ==
  IF from > Len(labels) THEN <<>>
  ELSE IF labels[from] = l /\ from > 1
    THEN <<from>> \o IndicesOfOffByOne(labels, l, from + 1)
  ELSE IndicesOfOffByOne(labels, l, from + 1)

RECURSIVE IndicesOf(_, _, _)
\* the indices i >= from with labels[i] = l, ascending
IndicesOf(labels, l, from) ==
  IF from > Len(labels) THEN <<>>
  ELSE IF labels[from] = l THEN <<from>> \o IndicesOf(labels, l, from + 1)
  ELSE IndicesOf(labels, l, from + 1)

\* Lines 755-787: the ClusterData of one label.
ClusterDataOf(ts, raw_features, cluster_labels, cluster_id) ==
  LET track_indices == IndicesOf(cluster_labels, cluster_id, 1)
      center_features_raw == MeanRow(raw_features, Range(track_indices), raw_features[1])
      center_dict == Dict([x \in Range(AUDIO_FEATURES) |->
                        center_features_raw[CHOOSE k \in 1..Len(AUDIO_FEATURES) :
                                              AUDIO_FEATURES[k] = x]])
  IN [cluster_id |-> IF cluster_id >= 0 THEN cluster_id ELSE -1,
      track_count |-> Len(track_indices),
      center_features |-> center_dict,
      track_ids |-> List([t \in 1..Len(track_indices) |-> ts[track_indices[t]].id]),
      label |-> _label_cluster(center_dict)]

RECURSIVE InsertBySize(_, _)
InsertBySize(sorted, c) ==
  IF sorted = <<>> THEN <<c>>
  ELSE IF c.track_count > Head(sorted).track_count THEN <<c>> \o sorted
  ELSE <<Head(sorted)>> \o InsertBySize(Tail(sorted), c)

\* The clusters left in the order in which their labels first occur.
LeftInLabelOrder(clusters, sorted) == clusters

RECURSIVE SortBySizeDesc(_, _)
\* clusters.sort(key=track_count, reverse=True): stable.
SortBySizeDesc(clusters, sorted) ==
  IF clusters = <<>> THEN sorted
  ELSE SortBySizeDesc(Tail(clusters), InsertBySize(sorted, Head(clusters)))

NoMetadata ==
  [algorithm |-> AlgoMetadata(""), log_scaled_features |-> {}, outlier_count |-> 0,
   silhouette_score |-> 0, calinski_harabasz_score |-> 0, n_clusters |-> 0,
   noise_points |-> 0]

NoResult ==
  [outcome |-> "none", path |-> "", clusters |-> <<>>, silhouette_score |-> 0,
   analysis_metadata |-> NoMetadata, cluster_labels |-> <<>>, coordinates |-> <<>>,
   quality |-> NoQuality,
   quality_report |-> [initial_quality |-> NoQuality, final_quality |-> NoQuality,
                       improvement |-> [num |-> 0, den |-> 1]]]

\* An error swallowed: the caller gets an empty result instead.
Swallowed(error) == [NoResult EXCEPT !.outcome = "returned"]

\* raise: the call ends with the error and no result.
Raised(error) == [NoResult EXCEPT !.outcome = error]

\* The silhouette computed whatever the labels are: what the metric raises
\* reaches the caller.
UnguardedSilhouette(D, cluster_labels) == silhouette_score(D, cluster_labels)

\* Lines 723-732, 738-744: the silhouette where the cluster count is within
\* 2..n_samples-1 and the metric accepts the labels, 0.0 otherwise; nothing
\* is raised.
GuardedSilhouette(D, cluster_labels) ==
  LET n_clusters_found == Cardinality(Range(cluster_labels))
      sil == silhouette_score(D, cluster_labels)
  IN [error |-> "",
      value |-> IF n_clusters_found > 1 /\ n_clusters_found < Len(cluster_labels)
                   /\ sil.error = ""
                  THEN sil.value ELSE 0]

\* Lines 723-809: quality metrics, grouping and metadata, from the result of
\* preprocessing and what the dispatcher returned.
ClusterResult(ts, pre, applied) ==
  IF applied.error # "" THEN Raised(applied.error)
  ELSE
    LET features == pre.features
        D == DistanceMatrix(features)
        cluster_labels == applied.labels
        n_clusters_found == Cardinality(Range(cluster_labels))
        n_samples == Len(features)
        measured == n_clusters_found > 1 /\ n_clusters_found < n_samples
        sil == GuardedSilhouette(D, cluster_labels)
        silhouette_avg == sil.value
        calinski_score == IF measured THEN calinski_harabasz_score(features, cluster_labels)
                          ELSE 0
        order == FirstOccurrences(cluster_labels, {})
        clusters == List([c \in 1..Len(order) |->
                       ClusterDataOf(ts, pre.raw_features, cluster_labels, order[c])])
    IN IF sil.error # "" THEN Raised(sil.error)
       ELSE
       [NoResult EXCEPT
          !.outcome = "returned",
          !.clusters = _deduplicate_labels(SortBySizeDesc(clusters, <<>>)),
          !.silhouette_score = silhouette_avg,
          !.analysis_metadata =
            [algorithm |-> applied.meta,
             log_scaled_features |-> pre.log_scaled_features,
             outlier_count |-> pre.outlier_count,
             silhouette_score |-> silhouette_avg,
             calinski_harabasz_score |-> calinski_score,
             n_clusters |-> n_clusters_found,
             noise_points |-> NoiseCount(cluster_labels)]]

\* Lines 718-720: the dispatcher run on the preprocessed features.
ClusterPreprocessed(ts, pre, method, n_clusters, g) ==
  ClusterResult(ts, pre,
    _apply_clustering_algorithm(pre.features, DistanceMatrix(pre.features),
                                method, n_clusters, g))

\* ClusteringService.cluster_tracks; g is the process-global random state at
\* the time of the call.
cluster_tracks(ts, method, n_clusters, g) ==
  IF Len(ts) < 2 THEN Raised("ValueError")
  ELSE ClusterPreprocessed(ts, _preprocess_features(ts), method, n_clusters, g)

\* Lines 1005-1015: the cluster result with the label of every cluster id.
WithClusterLabels(r) ==
  IF r.outcome # "returned" THEN r
  ELSE [r EXCEPT !.cluster_labels =
          List([c \in 1..Len(r.clusters) |->
             <<r.clusters[c].cluster_id, r.clusters[c].label>>])]

\* ClusteringService.enhanced_cluster_analysis
enhanced_cluster_analysis(ts, algorithm, num_clusters, g) ==
  IF Len(ts) < 2 THEN Raised("ValueError")
  ELSE WithClusterLabels(cluster_tracks(ts, algorithm, num_clusters, g))

\* ============================================================ projection
\* Rounds of the iteration that stands for the full SVD solver.
PowerIterations == 6

Dot(a, b) == SumSeq([j \in 1..Len(a) |-> a[j] * b[j]])

\* a / b rounded toward zero, as symmetric under negation as the floats are
Quot(a, b) == IF a >= 0 THEN a \div b ELSE -((-a) \div b)

\* A vector brought to length 1000 (the zero vector stays zero).
UnitVector(w) ==
  LET big == MaxOf({Abs(w[j]) : j \in 1..Len(w)})
      sc == (big \div 1000) + 1
      u == List([j \in 1..Len(w) |-> w[j] \div sc])
      norm == ISqrt(Dot(u, u))
  IN IF norm = 0 THEN u ELSE List([j \in 1..Len(u) |-> (u[j] * 1000) \div norm])

RECURSIVE PrincipalAxis(_, _, _, _)
\* The dominant direction of the covariance matrix C orthogonal to the axes
\* already found, from start vector v; it stops early at a fixed point.
PrincipalAxis(C, found, v, rounds) ==
  IF rounds = 0 THEN v
  ELSE LET cv == UnitVector(List([a \in 1..Len(C) |-> Dot(C[a], v)]))
           RECURSIVE deflate(_, _)
           deflate(w, f) ==
             IF f > Len(found) THEN w
             ELSE LET proj == Dot(w, found[f]) \div 1000
                  IN deflate(List([j \in 1..Len(w) |-> w[j] - (proj * found[f][j]) \div 1000]),
                             f + 1)
           next == UnitVector(deflate(cv, 1))
       IN IF next = v THEN v ELSE PrincipalAxis(C, found, next, rounds - 1)

\* sklearn PCA(n_components=2, svd_solver="full").fit: the two principal axes
\* of the centered data; the solver fixes each axis up to its sign, svd_sign.
PCA_fit(X, svd_sign) ==
  LET n == Len(X)
      m == Len(X[1])
      mean_ == List([j \in 1..m |-> SumSeq([i \in 1..n |-> X[i][j]]) \div n])
      centered == List([i \in 1..n |-> List([j \in 1..m |-> X[i][j] - mean_[j]])])
      C == List([a \in 1..m |-> List([b \in 1..m |->
             SumSeq([i \in 1..n |-> centered[i][a] * centered[i][b]]) \div 100])])
      first == PrincipalAxis(C, <<>>, List([j \in 1..m |-> 333]), PowerIterations)
      second == PrincipalAxis(C, <<first>>,
                  UnitVector(List([j \in 1..m |-> IF j % 2 = 1 THEN j ELSE -j])),
                  PowerIterations)
      components_ == <<List([j \in 1..m |-> svd_sign[1] * first[j]]),
                       List([j \in 1..m |-> svd_sign[2] * second[j]])>>
  IN [components_ |-> components_,
      coords |-> List([i \in 1..n |->
                   <<Quot(Dot(centered[i], components_[1]), 1000),
                     Quot(Dot(centered[i], components_[2]), 1000)>>])]

\* np.argmax(np.abs(loading)): the first index of the largest magnitude.
ArgMaxAbs(loading) ==
  CHOOSE j \in 1..Len(loading) :
    /\ \A o \in 1..Len(loading) : Abs(loading[j]) >= Abs(loading[o])
    /\ \A o \in 1..(j - 1) : Abs(loading[o]) < Abs(loading[j])

\* Lines 948-955: the sign of axis c after the orientation step.
OrientationSign(loading) == IF loading[ArgMaxAbs(loading)] < 0 THEN -1 ELSE 1

RECURSIVE InsertByKey(_, _)
InsertByKey(sorted, e) ==
  IF sorted = <<>> THEN <<e>>
  ELSE IF e.key < Head(sorted).key THEN <<e>> \o sorted
  ELSE <<Head(sorted)>> \o InsertByKey(Tail(sorted), e)

RECURSIVE SortByKey(_, _)
\* list.sort(key=...): stable, ascending.
SortByKey(items, sorted) ==
  IF items = <<>> THEN sorted
  ELSE SortByKey(Tail(items), InsertByKey(sorted, Head(items)))

\* The coordinates left as the sort by track id put them.
LeftInIdOrder(ts, coordinates) == coordinates

\* Line 973: coordinates.sort(key = first position of the track id in tracks)
SortBackToInputOrder(ts, coordinates) ==
  LET keyed == List([t \in 1..Len(coordinates) |->
                 [key |-> MinOf({i \in 1..Len(ts) : ts[i].id = coordinates[t].track_id}),
                  item |-> coordinates[t]]])
      back == SortByKey(keyed, <<>>)
  IN List([t \in 1..Len(back) |-> back[t].item])

\* Lines 945-973: the axes oriented, the coordinates paired with the track ids.
OrientedCoordinates(ts, pca) ==
    LET flip == List([c \in 1..2 |-> OrientationSign(pca.components_[c])])
        pca_coords == List([i \in 1..Len(ts) |->
                        <<flip[1] * pca.coords[i][1], flip[2] * pca.coords[i][2]>>])
        track_id_order ==
          SortByKey(List([i \in 1..Len(ts) |-> [key |-> ts[i].id, original_idx |-> i]]), <<>>)
        coordinates ==
          List([t \in 1..Len(track_id_order) |->
            [track_id |-> ts[track_id_order[t].original_idx].id,
             x |-> pca_coords[track_id_order[t].original_idx][1],
             y |-> pca_coords[track_id_order[t].original_idx][2]]])
    IN SortBackToInputOrder(ts, coordinates)

\* ClusteringService.get_pca_coordinates
get_pca_coordinates(ts, svd_sign) ==
  IF Len(ts) < 2 THEN <<>>
  ELSE OrientedCoordinates(ts, PCA_fit(_preprocess_features(ts).features, svd_sign))

\* The signs a solver can leave on the two axes.
SvdSigns == {<<1, 1>>, <<1, -1>>, <<-1, 1>>, <<-1, -1>>}

\* ================================================================= state
\* The algorithm names and cluster counts callers pass.
Methods == {"kmeans", "dbscan", "gaussian_mixture", "spectral", "invalid_method"}
ClusterCounts == {None, 2, 3}

NoCall ==
  [op |-> "none", method |-> "", n_clusters |-> None, before |-> <<>>,
   n_neighbors_before |-> None]

Init ==
  /\ tracks \in Playlists
  /\ imputer_n_neighbors = 5
  /\ pc = "idle"
  /\ call = NoCall
  /\ ret = NoResult

\* A caller invokes impute_missing_features on the playlist.
ImputeMissingFeatures ==
  /\ pc = "idle"
  /\ \E knn_raises \in BOOLEAN :
       LET r == impute_missing_features(tracks, imputer_n_neighbors, knn_raises)
       IN /\ tracks' = r.tracks
          /\ imputer_n_neighbors' = r.n_neighbors
          /\ call' = [NoCall EXCEPT !.op = "impute_missing_features", !.before = tracks,
                                    !.n_neighbors_before = imputer_n_neighbors]
          /\ ret' = [NoResult EXCEPT !.outcome = "returned", !.path = r.path]
  /\ pc' = "done"

\* A caller invokes analyze_data_quality on the playlist.
AnalyzeDataQuality ==
  /\ pc = "idle"
  /\ call' = [NoCall EXCEPT !.op = "analyze_data_quality", !.before = tracks]
  /\ ret' = [NoResult EXCEPT !.outcome = "returned",
                             !.quality = analyze_data_quality(tracks)]
  /\ pc' = "done"
  /\ UNCHANGED <<tracks, imputer_n_neighbors>>

\* A caller invokes cluster_tracks(tracks, method, n_clusters).
ClusterTracks ==
  /\ pc = "idle"
  /\ \E method \in Methods, n_clusters \in ClusterCounts, g \in GlobalRngStates :
       /\ call' = [NoCall EXCEPT !.op = "cluster_tracks", !.method = method,
                                 !.n_clusters = n_clusters, !.before = tracks]
       /\ ret' = cluster_tracks(tracks, method, n_clusters, g)
  /\ pc' = "done"
  /\ UNCHANGED <<tracks, imputer_n_neighbors>>

\* A caller invokes enhanced_cluster_analysis(tracks, algorithm, num_clusters).
EnhancedClusterAnalysis ==
  /\ pc = "idle"
  /\ \E algorithm \in Methods, num_clusters \in ClusterCounts, g \in GlobalRngStates :
       /\ call' = [NoCall EXCEPT !.op = "enhanced_cluster_analysis", !.method = algorithm,
                                 !.n_clusters = num_clusters, !.before = tracks]
       /\ ret' = enhanced_cluster_analysis(tracks, algorithm, num_clusters, g)
  /\ pc' = "done"
  /\ UNCHANGED <<tracks, imputer_n_neighbors>>

\* A caller invokes get_pca_coordinates(tracks).
GetPcaCoordinates ==
  /\ pc = "idle"
  /\ \E svd_sign \in SvdSigns :
       /\ call' = [NoCall EXCEPT !.op = "get_pca_coordinates", !.before = tracks]
       /\ ret' = [NoResult EXCEPT !.outcome = "returned",
                                  !.coordinates = get_pca_coordinates(tracks, svd_sign)]
  /\ pc' = "done"
  /\ UNCHANGED <<tracks, imputer_n_neighbors>>

\* The caller takes the result; the services are ready for the next call.
Return ==
  /\ pc = "done"
  /\ pc' = "idle"
  /\ call' = NoCall
  /\ ret' = NoResult
  /\ UNCHANGED <<tracks, imputer_n_neighbors>>

Next ==
  \/ ImputeMissingFeatures
  \/ AnalyzeDataQuality
  \/ ClusterTracks
  \/ EnhancedClusterAnalysis
  \/ GetPcaCoordinates
  \/ Return

\* Callers of both services, in any order.
Spec == Init /\ [][Next]_vars

\* Callers of AudioFeaturesService only.
ImputeNext == ImputeMissingFeatures \/ AnalyzeDataQuality \/ Return

ImputeSpec == Init /\ [][ImputeNext]_vars

\* One AudioFeaturesService instance serves request after request; its methods
\* run to completion without awaiting, so between two calls the next caller may
\* be a request holding another playlist.
NextRequest ==
  /\ pc = "idle"
  /\ tracks' \in Playlists
  /\ UNCHANGED <<imputer_n_neighbors, pc, call, ret>>

\* Requests for different playlists, their calls to AudioFeaturesService
\* interleaved in any order on the one instance.
InterleaveNext == ImputeMissingFeatures \/ AnalyzeDataQuality \/ NextRequest \/ Return

InterleaveSpec == Init /\ [][InterleaveNext]_vars

\* The centroids handed to the labeler: every descriptor the tree reads on
\* both sides of, and on, its thresholds; the descriptors it does not read
\* low or high.
Centroids ==
  { [danceability |-> d, energy |-> e, speechiness |-> o, acousticness |-> a,
     instrumentalness |-> i, liveness |-> o, valence |-> v, tempo |-> o,
     loudness |-> o] :
      e \in {30, 40, 55, 70, 80}, v \in {30, 40, 55, 70, 80},
      d \in {70, 71}, a \in {60, 61}, i \in {50, 51}, o \in {10, 90} }

\* Lines 760-770: the labeler is applied to a cluster's mean raw features.
LabelCluster ==
  /\ pc = "idle"
  /\ \E center_features \in Centroids :
       ret' = [NoResult EXCEPT
                 !.outcome = "returned",
                 !.clusters = <<[cluster_id |-> 0, track_count |-> 0,
                                 center_features |-> center_features,
                                 track_ids |-> <<>>,
                                 label |-> _label_cluster(center_features)]>>]
  /\ call' = [NoCall EXCEPT !.op = "_label_cluster"]
  /\ pc' = "done"
  /\ UNCHANGED <<tracks, imputer_n_neighbors>>

\* The labeler on its own, over the centroids.
LabelNext == LabelCluster \/ Return

LabelSpec == Init /\ [][LabelNext]_vars

\* ---- analyze_playlist_enhanced: one request through the analysis pipeline
\* Router lines 28-50 and service lines 666-667: the request is validated, then
\* prepare_tracks_for_analysis takes the initial quality report. The
\* request's num_clusters is drawn where the handler first reads it.
StartAnalysis ==
  /\ pc = "idle"
  /\ \E algorithm \in Methods :
       /\ call' = [NoCall EXCEPT !.op = "analyze_playlist_enhanced", !.method = algorithm,
                                 !.before = tracks]
       /\ IF algorithm \notin {"kmeans", "dbscan", "gaussian_mixture", "spectral"}
            THEN ret' = Raised("HTTP 400") /\ pc' = "done"
          ELSE IF tracks = <<>>
            THEN ret' = Raised("HTTP 404") /\ pc' = "done"
          ELSE /\ ret' = [NoResult EXCEPT !.quality_report.initial_quality =
                                            analyze_data_quality(tracks)]
               /\ pc' = "fill"
  /\ UNCHANGED <<tracks, imputer_n_neighbors>>

\* Service lines 669-676: the awaited fetch when less than 0.9 of the values
\* are present (the router always passes a session), the local imputation
\* otherwise.
FillMissing ==
  /\ pc = "fill"
  /\ \E outcome \in {"none", "some", "all"}, knn_raises \in BOOLEAN :
       \E r \in {IF ~AtLeastTenths(ret.quality_report.initial_quality.overall_completeness, 9)
                   THEN fetch_and_impute_features(tracks, outcome, imputer_n_neighbors,
                                                  knn_raises)
                   ELSE impute_missing_features(tracks, imputer_n_neighbors, knn_raises)} :
          /\ tracks' = r.tracks
          /\ imputer_n_neighbors' = r.n_neighbors
  /\ pc' = "finish"
  /\ UNCHANGED <<call, ret>>

\* A preparation that reports on the tracks as they were when it began.
FinishPreparationOnGivenTracks ==
  /\ pc = "finish"
  /\ \E final_quality \in {analyze_data_quality(call.before)} :
       LET initial == ret.quality_report.initial_quality.overall_completeness
           final == final_quality.overall_completeness
       IN ret' = [ret EXCEPT
                    !.quality_report.final_quality = final_quality,
                    !.quality_report.improvement =
                       [num |-> final.num * initial.den - initial.num * final.den,
                        den |-> final.den * initial.den]]
  /\ pc' = "analyze"
  /\ UNCHANGED <<tracks, imputer_n_neighbors, call>>

\* Service lines 678-687: the final quality report and the improvement
\* (final - initial overall completeness, kept as an exact fraction).
FinishPreparation ==
  /\ pc = "finish"
  /\ \E final_quality \in {analyze_data_quality(tracks)} :
       LET initial == ret.quality_report.initial_quality.overall_completeness
           final == final_quality.overall_completeness
       IN ret' = [ret EXCEPT
                    !.quality_report.final_quality = final_quality,
                    !.quality_report.improvement =
                       [num |-> final.num * initial.den - initial.num * final.den,
                        den |-> final.den * initial.den]]
  /\ pc' = "analyze"
  /\ UNCHANGED <<tracks, imputer_n_neighbors, call>>

\* Router lines 60-66 and 79-82: the prepared tracks are clustered; a
\* ValueError becomes HTTP 400, any other error HTTP 500.
RunAnalysis ==
  /\ pc = "analyze"
  /\ \E num_clusters \in ClusterCounts, g \in GlobalRngStates :
       \E result \in {enhanced_cluster_analysis(tracks, call.method, num_clusters, g)} :
          /\ call' = [call EXCEPT !.n_clusters = num_clusters]
          /\ IF result.outcome = "returned"
               THEN /\ ret' = [result EXCEPT !.quality_report = ret.quality_report]
                    /\ pc' = "respond"
               ELSE /\ ret' = Raised(IF result.outcome = "ValueError" THEN "HTTP 400"
                                     ELSE "HTTP 500")
                    /\ pc' = "done"
  /\ UNCHANGED <<tracks, imputer_n_neighbors>>

\* Router lines 68-82: the response is built; quality_report is a dict, so
\* quality_report.model_dump() raises AttributeError, which the handler turns
\* into HTTP 500.
Respond ==
  /\ pc = "respond"
  /\ ret' = Raised("HTTP 500")
  /\ pc' = "done"
  /\ UNCHANGED <<tracks, imputer_n_neighbors, call>>

\* One request to the analysis endpoint, from its arrival to its response.
PipelineNext ==
  StartAnalysis \/ FillMissing \/ FinishPreparation \/ RunAnalysis \/ Respond

PipelineSpec == Init /\ [][PipelineNext]_vars

\* Callers of ClusteringService only.
ClusterNext == ClusterTracks \/ EnhancedClusterAnalysis \/ GetPcaCoordinates \/ Return

ClusterSpec == Init /\ [][ClusterNext]_vars
\* ================================================================ properties
SupportedMethods == {"kmeans", "dbscan", "gaussian_mixture", "spectral"}

ClusterOps == {"cluster_tracks", "enhanced_cluster_analysis"}

\* A call of op has ended (with a result or an error).
Ended(op) == pc = "done" /\ call.op = op

\* The ids of the tracks a call was given.
InputIds == {call.before[i].id : i \in 1..Len(call.before)}

\* How many (cluster, position) places of the result hold the track id.
Places(id) ==
  Cardinality({<<c, t>> \in (1..Len(ret.clusters)) \X (1..Len(call.before)) :
                 t <= Len(ret.clusters[c].track_ids) /\ ret.clusters[c].track_ids[t] = id})

C3_TooFewTracksRejected ==
  (pc = "done" /\ call.op \in ClusterOps /\ Len(call.before) < 2) =>
    /\ ret.outcome = "ValueError"
    /\ ret.clusters = <<>>
    /\ ret.cluster_labels = <<>>
    /\ ret.analysis_metadata = NoMetadata

\* C3 witness: enhanced_cluster_analysis was called with a single track.
C3_Witness ==
  /\ Ended("enhanced_cluster_analysis")
  /\ Len(call.before) = 1
  /\ call.method = "kmeans"
  /\ ret.outcome = "ValueError"

\* C4: an algorithm name other than kmeans, dbscan, gaussian_mixture and
\* spectral is an error of the dispatcher; no labels come back and no other
\* algorithm runs in its place.
C4_UnsupportedMethodRejected ==
  (pc = "done" /\ call.op \in ClusterOps /\ call.method \notin SupportedMethods) =>
    /\ ret.outcome = "ValueError"
    /\ ret.clusters = <<>>
    /\ ret.cluster_labels = <<>>
    /\ Len(call.before) >= 2 =>
         LET X == _preprocess_features(call.before).features
             applied == _apply_clustering_algorithm(X, DistanceMatrix(X), call.method,
                                                    call.n_clusters, 0)
         IN /\ applied.error = "ValueError"
            /\ applied.labels = <<>>
            /\ applied.meta.keys = {"method"}

\* C4 witness: cluster_tracks was called on a playlist that k-means could
\* cluster, with an unknown algorithm name.
C4_Witness ==
  /\ Ended("cluster_tracks")
  /\ call.method \notin SupportedMethods
  /\ Len(call.before) >= 4
  /\ ret.outcome = "ValueError"

\* The density-based degeneracies of a feature matrix, in the words of C5.
SampleTooSmall(X) == Min2(4, Len(X) - 1) < 2

Trials(X, D) ==
  LET distances == KDistances(D, Min2(4, Len(X) - 1))
      grid == Grid(Len(X))
  IN [t \in 1..Len(grid) |->
        DBSCAN_fit_predict(D, safe_eps(distances, grid[t].pct), grid[t].ms)]

NoViableTrial(X, D) ==
  \A t \in 1..Len(Grid(Len(X))) : Cardinality(NonNoise(Trials(X, D)[t])) < 2

BestTrialTooNoisy(X, D) ==
  LET best == SearchFrom(D, KDistances(D, Min2(4, Len(X) - 1)), Grid(Len(X)), 1, NoBest)
  IN best.found /\ 2 * NoiseCount(best.labels) > Len(X)

Degenerate(X, D) ==
  \/ SampleTooSmall(X)
  \/ (~SampleTooSmall(X) /\ (NoViableTrial(X, D) \/ BestTrialTooNoisy(X, D)))

\* The grouping of track ids a label vector stands for.
GroupsOf(ts, labels) ==
  {{ts[i].id : i \in {j \in 1..Len(labels) : labels[j] = l}} : l \in Range(labels)}

WasMissing(i, x) == call.before[i].f[x] = None

\* The call returned the N tracks it was given, in order.
SameTracksReturned ==
  /\ Len(tracks) = Len(call.before)
  /\ \A i \in 1..Len(tracks) : tracks[i].id = call.before[i].id

\* C6: after impute_missing_features the same N tracks are returned and
\* every descriptor of the engine's descriptor set, loudness included, is set
\* on every track.
C6_EveryDescriptorPopulated ==
  Ended("impute_missing_features") =>
    /\ SameTracksReturned
    /\ \A i \in 1..Len(tracks) : \A x \in Range(AUDIO_FEATURES) : tracks[i].f[x] # None

\* What holds of the call for the descriptors the imputation iterates over:
\* it returns, and each of them is set on every track.
ImputerDescriptorsPopulated ==
  Ended("impute_missing_features") =>
    /\ ret.outcome = "returned"
    /\ SameTracksReturned
    /\ \A i \in 1..Len(tracks) : \A x \in Range(AFS_AUDIO_FEATURES) : tracks[i].f[x] # None

\* C7: impute_missing_features never raises; when the neighbor-based
\* estimator fails or cannot be applied the call still returns, with every
\* descriptor that was missing filled by the fallback chain.
C7_FallbackChainFillsMissing ==
  Ended("impute_missing_features") =>
    /\ ret.outcome = "returned"
    /\ ret.path \in {"knn_failed", "statistical", "defaults"} =>
         \A i \in 1..Len(tracks) : \A x \in Range(AUDIO_FEATURES) :
           WasMissing(i, x) => tracks[i].f[x] # None

\* C8: imputation never overwrites a real value: every descriptor that is set
\* on a track before impute_missing_features has the same value afterwards,
\* on every path.
C8_RealValuesKept ==
  Ended("impute_missing_features") =>
    /\ SameTracksReturned
    /\ \A i \in 1..Len(tracks) : \A x \in TrackColumns :
         ~WasMissing(i, x) => tracks[i].f[x] = call.before[i].f[x]

\* C8 witness: the statistical path has filled a gap of a batch whose tracks
\* disagree on a descriptor, next to real values.
C8_Witness ==
  /\ Ended("impute_missing_features")
  /\ ret.path \in {"statistical", "knn_failed"}
  /\ \E i \in 1..Len(tracks) : \E x \in Range(AFS_AUDIO_FEATURES) :
       WasMissing(i, x) /\ tracks[i].f[x] # None
  /\ \E i, k \in 1..Len(tracks) :
       /\ ~WasMissing(i, "energy") /\ ~WasMissing(k, "energy")
       /\ tracks[i].f["energy"] # tracks[k].f["energy"]

\* C9: a track for which imputation filled at least one descriptor has
\* features_imputed set afterwards; a track whose descriptors were all real
\* keeps its flag.
C9_ImputedTracksFlagged ==
  Ended("impute_missing_features") =>
    \A i \in 1..Len(tracks) :
      IF \E x \in TrackColumns : WasMissing(i, x) /\ tracks[i].f[x] # None
        THEN tracks[i].features_imputed = TRUE
        ELSE tracks[i].features_imputed = call.before[i].features_imputed

\* The per-descriptor defaults the imputation is documented to use: those of
\* FEATURE_DEFAULTS, and 0 for key and mode.
DocumentedDefaults == FEATURE_DEFAULTS @@ [key |-> 0, mode |-> 0]

\* Descriptor x was unset on every track when the call began.
MissingEverywhere(x) == \A i \in 1..Len(call.before) : WasMissing(i, x)

\* C10: a descriptor that is missing on every track of the batch is set to
\* its documented default on every track, for every batch size N >= 1.
C10_MissingEverywhereGetsDefault ==
  (Ended("impute_missing_features") /\ Len(call.before) >= 1) =>
    \A x \in DOMAIN DocumentedDefaults :
      MissingEverywhere(x) =>
        \A i \in 1..Len(tracks) : tracks[i].f[x] = DocumentedDefaults[x]

\* What holds of the call for the descriptors FEATURE_DEFAULTS lists: one
\* that is missing on every track gets its default on every track.
ListedDefaultsApplied ==
  (Ended("impute_missing_features") /\ Len(call.before) >= 1) =>
    \A x \in DOMAIN FEATURE_DEFAULTS :
      MissingEverywhere(x) =>
        \A i \in 1..Len(tracks) : tracks[i].f[x] = FEATURE_DEFAULTS[x]

\* How many tracks had descriptor x set when the call began.
KnownCount(x) == Cardinality({i \in 1..Len(call.before) : ~WasMissing(i, x)})

\* C11: a descriptor with fewer than 2 known values across the batch (none or
\* one) has its missing entries filled with the descriptor's constant
\* default, not with a value taken from the other tracks.
C11_FewKnownGetsDefault ==
  Ended("impute_missing_features") =>
    \A x \in DOMAIN FEATURE_DEFAULTS :
      KnownCount(x) < 2 =>
        \A i \in 1..Len(tracks) : WasMissing(i, x) => tracks[i].f[x] = FEATURE_DEFAULTS[x]

\* What holds of the batches too small for estimation (N < 3): a descriptor
\* with fewer than 2 known values is filled with its default.
SmallBatchFewKnownGetsDefault ==
  (Ended("impute_missing_features") /\ Len(call.before) < 3) =>
    \A x \in DOMAIN FEATURE_DEFAULTS :
      KnownCount(x) < 2 =>
        \A i \in 1..Len(tracks) : WasMissing(i, x) => tracks[i].f[x] = FEATURE_DEFAULTS[x]

\* ------------------------------------------------------ selection properties
CountedMethods == {"kmeans", "gaussian_mixture", "spectral"}

\* A clustering call on N >= 2 tracks that left the cluster count to the
\* automatic selector has ended.
AutoSelected ==
  /\ pc = "done" /\ call.op \in ClusterOps
  /\ call.method \in CountedMethods
  /\ call.n_clusters = None
  /\ Len(call.before) >= 2

\* The selector's answer k for the feature matrix X is within [2, min(8, N-1)]
\* and its reference clustering for k has at least 2 clusters.
SelectionSound(X, k) ==
  /\ 2 <= k
  /\ k <= Min2(8, Len(X) - 1)
  /\ Cardinality(Range(KMeans_fit_predict(X, k, random_state).labels)) >= 2

\* C12: for every feature matrix with N >= 2 rows _find_optimal_clusters
\* returns a k within [2, min(8, N-1)], and the clustering chosen for that k
\* has at least 2 real clusters; the k it returns is the one the run uses.
C12_SelectedCountInRange ==
  AutoSelected =>
    LET X == _preprocess_features(call.before).features
        k == _find_optimal_clusters(X, DistanceMatrix(X), 0)
    IN /\ SelectionSound(X, k)
       /\ ret.outcome = "returned" => ret.analysis_metadata.algorithm.n_clusters = k

\* What holds of the selector from 3 rows on: k is within [2, min(8, N-1)]
\* and is the count the run uses.
SelectedCountInRangeFromThree ==
  (AutoSelected /\ Len(call.before) >= 3) =>
    LET X == _preprocess_features(call.before).features
        k == _find_optimal_clusters(X, DistanceMatrix(X), 0)
    IN /\ 2 <= k /\ k <= Min2(8, Len(X) - 1)
       /\ ret.outcome = "returned" => ret.analysis_metadata.algorithm.n_clusters = k

\* A clustering call with an explicit cluster count for an estimator that
\* takes one has returned a result.
ExplicitCountReturned ==
  /\ pc = "done" /\ call.op \in ClusterOps
  /\ call.method \in CountedMethods
  /\ call.n_clusters # None
  /\ ret.outcome = "returned"

\* C13: a cluster count the caller supplies is used unchanged by k-means,
\* Gaussian mixture and spectral clustering: the algorithm metadata's
\* n_clusters is the supplied count and the grouping is the estimator's for
\* that count, whatever the automatic selector would have answered.
C13_ExplicitCountUsed ==
  ExplicitCountReturned =>
    LET X == _preprocess_features(call.before).features
        meta == ret.analysis_metadata.algorithm
    IN /\ meta.n_clusters = call.n_clusters
       /\ "n_clusters" \in meta.keys
       /\ {Range(ret.clusters[c].track_ids) : c \in 1..Len(ret.clusters)}
            = GroupsOf(call.before,
                       FitWithCount(X, call.method, call.n_clusters, 0, {}).labels)

\* C13 witness: the caller asked for 3 clusters where the selector would have
\* answered otherwise, and 3 clusters came back.
C13_Witness ==
  /\ ExplicitCountReturned
  /\ call.n_clusters = 3
  /\ Len(ret.clusters) = 3
  /\ LET X == _preprocess_features(call.before).features
     IN _find_optimal_clusters(X, DistanceMatrix(X), 0) # 3

\* ------------------------------------------------------- labeling properties
\* A clustering call has returned a result.
ClusteringReturned == pc = "done" /\ call.op \in ClusterOps /\ ret.outcome = "returned"

\* The label cluster c computed before de-duplication.
BaseLabel(c) == _label_cluster(ret.clusters[c].center_features)

\* C14: after label de-duplication any two clusters that computed the same
\* base label carry distinct final label strings, also when their energy,
\* danceability and valence fall in the same coarse buckets.
C14_DuplicateLabelsMadeDistinct ==
  ClusteringReturned =>
    \A c, d \in 1..Len(ret.clusters) :
      (c # d /\ BaseLabel(c) = BaseLabel(d)) => ret.clusters[c].label # ret.clusters[d].label

\* What holds of de-duplication: a base label no other cluster computed is
\* kept as it is, a shared one gets the cluster's descriptor appended, so
\* clusters sharing a base label differ whenever their descriptors do.
SharedLabelsGetDescriptor ==
  ClusteringReturned =>
    \A c \in 1..Len(ret.clusters) :
      IF \E d \in 1..Len(ret.clusters) : d # c /\ BaseLabel(d) = BaseLabel(c)
        THEN ret.clusters[c].label
               = BaseLabel(c) \o " (" \o descriptor(ret.clusters[c]) \o ")"
        ELSE ret.clusters[c].label = BaseLabel(c)

\* -------------------------------------------------------- quality properties
\* The descriptors the report covers.
ReportedDescriptors == Range(AFS_AUDIO_FEATURES)

\* On how many of the given tracks descriptor x was set.
PresentCount(x) == Cardinality({i \in 1..Len(call.before) : call.before[i].f[x] # None})

\* All values of the reported descriptors that were set, over all tracks.
PresentValues ==
  Cardinality({<<i, x>> \in (1..Len(call.before)) \X ReportedDescriptors :
                 call.before[i].f[x] # None})

\* The tier a recommendation text names.
TierOf(recommendation) ==
  IF SubSeq(recommendation, 1, 9) = "Excellent" THEN "excellent"
  ELSE IF SubSeq(recommendation, 1, 4) = "Good" THEN "good"
  ELSE IF SubSeq(recommendation, 1, 8) = "Moderate" THEN "moderate"
  ELSE IF SubSeq(recommendation, 1, 4) = "Poor" THEN "poor"
  ELSE "none"

\* C15: analyze_data_quality on N >= 1 tracks reports, per descriptor,
\* present + missing = N and completeness = present / N, an overall
\* completeness equal to the fraction of present values, and exactly the tier
\* of that fraction (>= 0.9 excellent, >= 0.7 good, >= 0.5 moderate, else
\* poor); all present gives 1.0 and excellent, all missing 0.0 and poor.
C15_QualityReport ==
  (Ended("analyze_data_quality") /\ Len(call.before) >= 1) =>
    LET N == Len(call.before)
        q == ret.quality
        all == PresentValues
        possible == N * Cardinality(ReportedDescriptors)
    IN /\ q.error = ""
       /\ q.total_tracks = N
       /\ \A x \in ReportedDescriptors :
            /\ q.feature_quality[x].present = PresentCount(x)
            /\ q.feature_quality[x].present + q.feature_quality[x].missing = N
            /\ q.feature_quality[x].completeness.num * N
                 = q.feature_quality[x].present * q.feature_quality[x].completeness.den
       /\ q.overall_completeness.num * possible = all * q.overall_completeness.den
       /\ TierOf(q.recommendation) =
            (IF 10 * all >= 9 * possible THEN "excellent"
             ELSE IF 10 * all >= 7 * possible THEN "good"
             ELSE IF 10 * all >= 5 * possible THEN "moderate"
             ELSE "poor")
       /\ all = possible =>
            q.overall_completeness = [num |-> 1, den |-> 1]
            /\ TierOf(q.recommendation) = "excellent"
       /\ all = 0 =>
            q.overall_completeness = [num |-> 0, den |-> 1]
            /\ TierOf(q.recommendation) = "poor"

\* C15 witness: a report on a playlist that is exactly half complete, which
\* is the lower edge of the moderate tier.
C15_Witness ==
  /\ Ended("analyze_data_quality")
  /\ Len(call.before) >= 2
  /\ 2 * PresentValues = Len(call.before) * Cardinality(ReportedDescriptors)
  /\ TierOf(ret.quality.recommendation) = "moderate"

\* ----------------------------------------------------- projection properties
\* The ids of the given tracks are not in ascending order.
IdsOutOfOrder ==
  \E i \in 1..(Len(call.before) - 1) : call.before[i].id > call.before[i + 1].id

\* C16: get_pca_coordinates returns one coordinate record per input track,
\* the i-th record carrying the i-th input track's id whatever the order of
\* the ids; with fewer than 2 tracks it returns an empty list.
C16_CoordinatesInInputOrder ==
  Ended("get_pca_coordinates") =>
    /\ ret.outcome = "returned"
    /\ Len(call.before) < 2 => ret.coordinates = <<>>
    /\ Len(call.before) >= 2 =>
         /\ Len(ret.coordinates) = Len(call.before)
         /\ \A i \in 1..Len(call.before) : ret.coordinates[i].track_id = call.before[i].id

\* C16 witness: coordinates came back for a playlist whose ids are out of
\* order, with tracks projected to different points.
C16_Witness ==
  /\ Ended("get_pca_coordinates")
  /\ Len(call.before) >= 3
  /\ IdsOutOfOrder
  /\ Len(ret.coordinates) = Len(call.before)
  /\ \E i, k \in 1..Len(ret.coordinates) : ret.coordinates[i].x # ret.coordinates[k].x

\* ------------------------------------------------------- metadata properties
\* A density-based run on the given tracks has returned its own grouping
\* (no fallback to k-means).
DensityRunReturned ==
  /\ ClusteringReturned
  /\ call.method = "dbscan"
  /\ "fallback_to_kmeans" \notin ret.analysis_metadata.algorithm.keys

\* The labels of the best trial of the density-based pass on the given
\* tracks, before noise is reassigned.
BestTrialLabels ==
  LET X == _preprocess_features(call.before).features
      D == DistanceMatrix(X)
  IN SearchFrom(D, KDistances(D, Min2(4, Len(X) - 1)), Grid(Len(X)), 1, NoBest).labels

\* C17: the noise_points of the quality metrics is the number of points the
\* density-based pass marked as noise before they were reassigned to
\* clusters.
C17_NoisePointsBeforeReassignment ==
  DensityRunReturned =>
    ret.analysis_metadata.noise_points = NoiseCount(BestTrialLabels)

\* What holds of noise_points: it is counted on the final labels, none of
\* which is noise after the reassignment, so it is 0 on every run.
NoisePointsCountedAfterReassignment ==
  ClusteringReturned => ret.analysis_metadata.noise_points = 0

\* What the dispatcher returns for the given call.
DispatcherOutput ==
  LET X == _preprocess_features(call.before).features
  IN _apply_clustering_algorithm(X, DistanceMatrix(X), call.method, call.n_clusters, 0)

\* The silhouette is undefined for the labels: fewer than 2 clusters, as many
\* clusters as tracks or more, or labels the metric rejects.
SilhouetteUndefined(labels) ==
  LET k == Cardinality(Range(labels))
  IN \/ k < 2
     \/ k >= Len(labels)
     \/ silhouette_score(DistanceMatrix(_preprocess_features(call.before).features),
                         labels).error # ""

TwoExtremesAndBare(ts) ==
  /\ Len(ts) = 3
  /\ \A i \in 1..2, x \in TrackColumns : ts[i].f[x] # None
  /\ \A x \in Range(AFS_AUDIO_FEATURES) : ts[1].f[x] # ts[2].f[x]
  /\ \A x \in TrackColumns : ts[3].f[x] = None

StrictlyBetween(v, a, b) == Min2(a, b) < v /\ v < Max2(a, b)

\* The track lists the engine receives once such a playlist went through imputation.
ImputedExtremes ==
  {impute_missing_features(p, 5, FALSE).tracks : p \in {q \in Playlists : TwoExtremesAndBare(q)}}

ReturnedLabel(i) ==
  LET c == CHOOSE k \in 1..Len(ret.clusters) :
             call.before[i].id \in Range(ret.clusters[k].track_ids)
  IN ret.clusters[c].cluster_id

\* C22: on a density-based run without fallback, every point the best trial
\* marked as noise ends in the cluster whose centroid (the mean of the
\* cluster's non-noise members, taken before any reassignment) is nearest to
\* it by squared Euclidean distance, every other point keeps its cluster, and
\* the returned labels are the trial's labels plus one: none is 0 or -1.
C22_NoiseJoinsNearestCluster ==
  DensityRunReturned =>
    LET X == _preprocess_features(call.before).features
        best == BestTrialLabels
        centroid(u) == ClusterMean(X, best, u)
    IN \A i \in 1..Len(call.before) :
         /\ ReturnedLabel(i) >= 1
         /\ best[i] # -1 => ReturnedLabel(i) = best[i] + 1
         /\ best[i] = -1 =>
              /\ ReturnedLabel(i) - 1 \in NonNoise(best)
              /\ \A u \in NonNoise(best) :
                   SqDist(X[i], centroid(ReturnedLabel(i) - 1)) <= SqDist(X[i], centroid(u))

\* A run whose best trial left a point as noise, nearer to the second cluster
\* than to the first.
C22_Witness ==
  /\ DensityRunReturned
  /\ \E i \in 1..Len(call.before) :
       /\ BestTrialLabels[i] = -1
       /\ ReturnedLabel(i) = 2
       /\ \E j \in 1..Len(call.before) : ReturnedLabel(j) = 1 /\ BestTrialLabels[j] = 0

\* ------------------------------------------------ fallback properties
\* The parameter search ran for the call: density-based, 3 tracks or more.
SearchRan ==
  /\ pc = "done" /\ call.op \in ClusterOps
  /\ call.method = "dbscan" /\ Len(call.before) >= 3

\* clamp(floor(n / 15), 2, 5)
ClampedCount(n) == IF n < 30 THEN 2 ELSE IF n >= 75 THEN 5 ELSE n \div 15

GridPairs(n) == Range(candidate_percentiles) \X Range(candidate_min_samples(n))

\* Pair p comes before pair q: percentile ascending, then min_samples.
EarlierPair(p, q) == p[1] < q[1] \/ (p[1] = q[1] /\ p[2] < q[2])

\* The labels of the trial run with the pair.
TrialLabels(p) ==
  LET X == _preprocess_features(call.before).features
      D == DistanceMatrix(X)
  IN DBSCAN_fit_predict(D, safe_eps(KDistances(D, Min2(4, Len(X) - 1)), p[1]), p[2])

\* silhouette - 0.06 * |4 - clusterCount| - 0.30 * noiseRatio, in thousandths.
ClaimedScore(labels) ==
  LET D == DistanceMatrix(_preprocess_features(call.before).features)
      s == silhouette_score(D, labels)
  IN (IF s.error # "" THEN 0 ELSE s.value)
       - 60 * Abs(4 - Cardinality(NonNoise(labels)))
       - (300 * NoiseCount(labels)) \div Len(labels)

\* C24: the search visits every (percentile, min_samples) pair of the grid, in
\* order; the trial a density-based run reports has at least 2 real clusters,
\* its score is maximal among the trials with at least 2 real clusters, and
\* it is the earliest of the trials with that score.
C24_BestTrialKept ==
  SearchRan =>
    LET n == Len(call.before)
        grid == Grid(n)
        meta == ret.analysis_metadata.algorithm
        kept == <<meta.eps_percentile, meta.min_samples>>
        viable == {p \in GridPairs(n) : Cardinality(NonNoise(TrialLabels(p))) >= 2}
    IN /\ {<<grid[t].pct, grid[t].ms>> : t \in 1..Len(grid)} = GridPairs(n)
       /\ \A t \in 1..(Len(grid) - 1) :
            EarlierPair(<<grid[t].pct, grid[t].ms>>, <<grid[t + 1].pct, grid[t + 1].ms>>)
       /\ DensityRunReturned =>
            /\ kept \in viable
            /\ BestTrialLabels = TrialLabels(kept)
            /\ \A p \in viable :
                 \/ ClaimedScore(TrialLabels(p)) < ClaimedScore(TrialLabels(kept))
                 \/ /\ ClaimedScore(TrialLabels(p)) = ClaimedScore(TrialLabels(kept))
                    /\ (p = kept \/ EarlierPair(kept, p))

\* A run whose kept trial shares its score with a later trial of the grid,
\* while some trial of the grid had fewer than 2 real clusters.
C24_Witness ==
  /\ DensityRunReturned
  /\ LET kept == <<ret.analysis_metadata.algorithm.eps_percentile,
                   ret.analysis_metadata.algorithm.min_samples>>
     IN /\ \E p \in GridPairs(Len(call.before)) :
             /\ EarlierPair(kept, p)
             /\ Cardinality(NonNoise(TrialLabels(p))) >= 2
             /\ ClaimedScore(TrialLabels(p)) = ClaimedScore(TrialLabels(kept))
        /\ \E p \in GridPairs(Len(call.before)) : Cardinality(NonNoise(TrialLabels(p))) < 2

\* ------------------------------------------------ radius properties
\* The sorted k-distances of the call's tracks.
CallKDistances ==
  LET X == _preprocess_features(call.before).features
  IN KDistances(DistanceMatrix(X), Min2(4, Len(X) - 1))

\* C25: every trial of the search runs with a strictly positive radius: the
\* percentile of the k-distances when it is positive, otherwise the same
\* percentile of the non-zero k-distances, and the floor 1e-4 when that is
\* not positive either (there are no non-zero distances).
C25_RadiusPositive ==
  SearchRan =>
    /\ \A pct \in Range(candidate_percentiles) :
         LET e == Percentile(CallKDistances, pct)
             non_zero == SelectSeq(CallKDistances, LAMBDA d : d > 0)
             radius == safe_eps(CallKDistances, pct)
         IN /\ radius > 0
            /\ e > 0 => radius = e
            /\ (e <= 0 /\ non_zero # <<>>) => radius = Percentile(non_zero, pct)
            /\ (e <= 0 /\ non_zero = <<>>) => radius = min_eps
    /\ DensityRunReturned => ret.analysis_metadata.algorithm.eps > 0

\* A search in which one percentile of the k-distances is zero and the radius
\* comes from the non-zero distances, and another percentile is positive.
C25_Witness ==
  /\ SearchRan
  /\ \E pct \in Range(candidate_percentiles) :
       /\ Percentile(CallKDistances, pct) = 0
       /\ safe_eps(CallKDistances, pct) > min_eps
  /\ \E pct \in Range(candidate_percentiles) : Percentile(CallKDistances, pct) > 0

\* ------------------------------------------------ composite properties
\* The candidate counts of the call that produced valid metrics.
ValidCandidates ==
  LET X == _preprocess_features(call.before).features
  IN EvaluateCandidates(X, DistanceMatrix(X), 2, Min2(max_clusters_default, Len(X) - 1), 0)

\* 0.35 silhouette + 0.20 Calinski-Harabasz + 0.25 elbow + 0.20 Davies-Bouldin
\* - 0.05 (k - 2) on the metrics normalized over the candidates, in thousandths.
WeightedComposite(ev, i) ==
  LET col(name) == List([j \in 1..Len(ev) |-> ev[j][name]])
  IN (350 * normalize_metric(col("silhouette"), TRUE)[i]
      + 200 * normalize_metric(col("calinski_harabasz"), TRUE)[i]
      + 250 * normalize_metric(_calculate_elbow_scores(col("wcss")), TRUE)[i]
      + 200 * normalize_metric(col("davies_bouldin"), FALSE)[i]) \div 1000
     - 50 * (ev[i].k - 2)

\* The count k has the highest weighted composite among the candidates ev,
\* or is 2 when there is no candidate.
HighestComposite(ev, k) ==
  IF ev = <<>> THEN k = 2
  ELSE \E i \in 1..Len(ev) :
         /\ ev[i].k = k
         /\ \A j \in 1..Len(ev) : WeightedComposite(ev, j) <= WeightedComposite(ev, i)

\* The count the selector answers for the call's tracks.
SelectedCount ==
  LET X == _preprocess_features(call.before).features
  IN _find_optimal_clusters(X, DistanceMatrix(X), 0)

\* C26: among the candidate counts that produced valid metrics the selector
\* returns the k with the highest weighted composite of the normalized
\* metrics; when no candidate produced valid metrics it returns 2.
C26_SelectorMaximizesComposite ==
  AutoSelected => HighestComposite(ValidCandidates, SelectedCount)

\* What holds of the selector from 3 rows on: the k it returns has the highest
\* weighted composite among the valid candidates, or is 2 when there is none.
SelectorMaximizesFromThree ==
  (AutoSelected /\ Len(call.before) >= 3) => HighestComposite(ValidCandidates, SelectedCount)

\* ------------------------------------------------ preprocessing properties
\* The column of descriptor x in the feature matrices.
ColumnOf(x) == CHOOSE j \in 1..Len(AUDIO_FEATURES) : AUDIO_FEATURES[j] = x

\* ln(max(tempo, 1)) for tempo, ln(max(loudness + 60, 1)) for loudness, in
\* hundredths.
LogOf(x, value) == Ln100(Max2(IF x = "loudness" THEN value + 60 ELSE value, 1))

\* C27: for every track whose tempo or loudness is present the value that
\* enters standardization is its logarithm (tempo: ln(max(tempo, 1)),
\* loudness: ln(max(loudness + 60, 1))), loudness between -60 and 0 dB
\* included, and the descriptor is reported in log_scaled_features.
C27_TempoAndLoudnessLogScaled ==
  ClusteringReturned =>
    \A x \in {"tempo", "loudness"}, i \in 1..Len(call.before) :
      call.before[i].f[x] # None =>
        /\ TrackFeatures(call.before[i])[ColumnOf(x)] = LogOf(x, call.before[i].f[x])
        /\ x \in ret.analysis_metadata.log_scaled_features

\* What holds of the log-scaling: it is applied to, and reported for, the
\* present values above 0 only; a present value of 0 or below enters
\* standardization unscaled.
OnlyPositiveValuesLogScaled ==
  ClusteringReturned =>
    /\ \A x \in {"tempo", "loudness"}, i \in 1..Len(call.before) :
         call.before[i].f[x] # None =>
           TrackFeatures(call.before[i])[ColumnOf(x)] =
             IF call.before[i].f[x] > 0 THEN LogOf(x, call.before[i].f[x])
             ELSE call.before[i].f[x] * Unit
    /\ ret.analysis_metadata.log_scaled_features =
         {x \in {"tempo", "loudness"} :
            \E i \in 1..Len(call.before) :
              call.before[i].f[x] # None /\ call.before[i].f[x] > 0}

\* ------------------------------------------------ labeler properties
\* The labels of the decision tree.
ClusterLabelNames ==
  {"High-energy dance hits", "Upbeat & energetic", "Intense & aggressive",
   "High-energy tracks", "Mellow & melancholic", "Acoustic & chill", "Sad & slow",
   "Calm & relaxed", "Moderate dance tracks", "Folk & acoustic", "Instrumental pieces",
   "Feel-good tracks", "Bittersweet songs", "Balanced mix"}

\* The descriptors the label may depend on.
LabelDescriptors == {"energy", "valence", "danceability", "acousticness", "instrumentalness"}

\* C28: the labeler maps every centroid to one label of a fixed set; energy,
\* valence and danceability all above 0.7 give "High-energy dance hits";
\* energy below 0.4 with acousticness above 0.6 and valence below 0.4 gives
\* "Mellow & melancholic"; a centroid in no named bucket (energy and valence
\* within 0.4..0.7, danceability at most 0.7, acousticness at most 0.6,
\* instrumentalness at most 0.5) gives "Balanced mix"; and two centroids that
\* agree on energy, valence, danceability, acousticness and instrumentalness
\* get the same label.
C28_LabelerDecisionTree ==
  Ended("_label_cluster") =>
    LET c == ret.clusters[1].center_features
        label == ret.clusters[1].label
    IN /\ label \in ClusterLabelNames
       /\ (c.energy > 70 /\ c.valence > 70 /\ c.danceability > 70)
            => label = "High-energy dance hits"
       /\ (c.energy < 40 /\ c.acousticness > 60 /\ c.valence < 40)
            => label = "Mellow & melancholic"
       /\ (c.energy >= 40 /\ c.energy <= 70 /\ c.valence >= 40 /\ c.valence <= 70
             /\ c.danceability <= 70 /\ c.acousticness <= 60 /\ c.instrumentalness <= 50)
            => label = "Balanced mix"
       /\ \A o \in Centroids :
            (\A x \in LabelDescriptors : o[x] = c[x]) => _label_cluster(o) = label

\* A centroid on the thresholds themselves was labelled "Balanced mix".
C28_Witness ==
  /\ Ended("_label_cluster")
  /\ ret.clusters[1].center_features.energy = 70
  /\ ret.clusters[1].center_features.valence = 40
  /\ ret.clusters[1].center_features.tempo = 90
  /\ ret.clusters[1].label = "Balanced mix"

\* ------------------------------------------------ raw matrix properties
\* The raw (labeling) matrix the preprocessor builds for the call's tracks.
CallRawFeatures == _preprocess_features(call.before).raw_features

InUnitRange(v) == 0 <= v /\ v <= Unit

\* C29: every entry of the raw matrix the preprocessor builds lies in [0, 1],
\* also for a track whose descriptor is unset and gets a default, and so does
\* every value of the center_features of every returned cluster.
C29_RawMatrixInUnitRange ==
  ClusteringReturned =>
    /\ \A i \in 1..Len(call.before), j \in 1..Len(AUDIO_FEATURES) :
         InUnitRange(CallRawFeatures[i][j])
    /\ \A c \in 1..Len(ret.clusters), x \in Range(AUDIO_FEATURES) :
         InUnitRange(ret.clusters[c].center_features[x])

\* What holds of the raw matrix: every entry is in [0, 1] except the tempo of
\* a track whose tempo is unset, which is the default in BPM; when no track
\* has its tempo unset the centroids are in [0, 1] too.
RawMatrixInUnitRangeButUnsetTempo ==
  ClusteringReturned =>
    /\ \A i \in 1..Len(call.before), j \in 1..Len(AUDIO_FEATURES) :
         IF AUDIO_FEATURES[j] = "tempo" /\ call.before[i].f["tempo"] = None
           THEN CallRawFeatures[i][j] = FEATURE_DEFAULTS["tempo"] * Unit
           ELSE InUnitRange(CallRawFeatures[i][j])
    /\ (\A i \in 1..Len(call.before) : call.before[i].f["tempo"] # None) =>
         \A c \in 1..Len(ret.clusters), x \in Range(AUDIO_FEATURES) :
           InUnitRange(ret.clusters[c].center_features[x])

\* ------------------------------------------------ pipeline properties
\* A request to the analysis endpoint has reached the step.
InPipeline(steps) == call.op = "analyze_playlist_enhanced" /\ pc \in steps

\* How many of the imputer's descriptors are unset over the tracks.
UnsetValues(ts) ==
  Cardinality({<<i, x>> \in (1..Len(ts)) \X Range(AFS_AUDIO_FEATURES) : ts[i].f[x] = None})

\* C30: in the analysis pipeline the initial quality report is taken on the
\* tracks as given, before any descriptor is modified; the final report is
\* taken after the filling step has finished, on the filled tracks; the
\* improvement is the final minus the initial overall completeness and is
\* never negative; and the clustering runs on the filled tracks, after both.
C30_FillingBeforeClustering ==
  /\ InPipeline({"fill"}) =>
       /\ tracks = call.before
       /\ ret.quality_report.initial_quality = analyze_data_quality(call.before)
  /\ InPipeline({"finish", "analyze", "respond"}) =>
       /\ ret.quality_report.initial_quality = analyze_data_quality(call.before)
       /\ UnsetValues(tracks) = 0
       /\ Len(tracks) = Len(call.before)
  /\ InPipeline({"analyze", "respond"}) =>
       LET initial == ret.quality_report.initial_quality.overall_completeness
           final == ret.quality_report.final_quality.overall_completeness
           improvement == ret.quality_report.improvement
       IN /\ ret.quality_report.final_quality = analyze_data_quality(tracks)
          /\ improvement.den > 0 /\ improvement.num >= 0
          /\ improvement.num * final.den * initial.den
               = (final.num * initial.den - initial.num * final.den) * improvement.den
  /\ InPipeline({"respond"}) =>
       [ret EXCEPT !.quality_report = NoResult.quality_report]
         = enhanced_cluster_analysis(tracks, call.method, call.n_clusters, 0)

\* A request whose tracks lacked a few values was filled by the local
\* imputation, reported a positive improvement, and was then clustered.
C30_Witness ==
  /\ InPipeline({"respond"})
  /\ UnsetValues(call.before) > 0
  /\ AtLeastTenths(ret.quality_report.initial_quality.overall_completeness, 9)
  /\ ret.quality_report.improvement.num > 0
  /\ Len(ret.clusters) >= 2

====
